---- MODULE Spec2Model ----
(***************************************************************************)
(* dotnope: a per-package firewall for process.env.                        *)
(*                                                                         *)
(* The model has two layers.  The mediator (lib/proxy.js) is translated    *)
(* from its source: the module variables, createEnvProxy, enable, disable, *)
(* restore, setFilterKeysFn and the seven traps of the Proxy handler.      *)
(* The check function and the key filter that lib/dotnope.js hands to the  *)
(* mediator, the configuration loader and the control handle are not among *)
(* the source files; they are modelled from sections 3, 4.1, 4.3, 4.4, 4.7 *)
(* and 4.8 of the specification.                                           *)
(***************************************************************************)
EXTENDS Integers, Sequences, FiniteSets, TLC

(***************************************************************************)
(* Bound of the model                                                      *)
(***************************************************************************)
\* Number of installations (createEnvProxy calls that succeed) in one run.
MaxInstalls == 2
\* Number of the three sets of a package policy that are not empty.
MaxGrantSets == 1
\* Number of frames on a captured stack.
MaxFrames == 2
\* Number of arguments on the launcher's command line.
MaxArgs == 3
\* Number of file paths in the package cache.
MaxCached == 2

(***************************************************************************)
(* JavaScript values                                                       *)
(***************************************************************************)
Null == [null |-> TRUE]
Undefined == "undefined"
\* Values an environment variable can hold.
Values == {"x"}
\* String property names: an ordinary variable and the name the get trap
\* treats as Node.js internal inspection.
EnvVars == {"A", "inspect"}
\* A symbol-keyed property (typeof prop === 'symbol').
SymbolProp == "Symbol(Symbol.toStringTag)"
Props == EnvVars \cup {SymbolProp}
IsSymbol(prop) == prop = SymbolProp
IsString(prop) == ~IsSymbol(prop)
\* The reserved sentinel of a package policy.
Wildcard == "*"
\* Object references: the original process.env object and the Proxy objects.
StoreRef == [object |-> "env"]
ProxyRef(n) == [object |-> "proxy", id |-> n]
IsProxy(ref) == ref # Null /\ ref.object = "proxy"

(***************************************************************************)
(* Caller resolution: what getCallingPackage returns for the stack of the  *)
(* access: null, or a caller with a package name and the isEval flag.      *)
(***************************************************************************)
MainName == "__main__"
Packages == {"p", "q"}
Caller(name, eval) == [packageName |-> name, isEval |-> eval]
Callers ==
    {Null} \cup {Caller(n, e) : n \in {MainName, "p"}, e \in BOOLEAN} \cup {Caller("q", FALSE)}

\* The caller identity of section 3: main, package(name) or unknown.
IdentityOf(caller) ==
    IF caller = Null THEN [kind |-> "unknown", name |-> ""]
    ELSE IF caller.packageName = MainName THEN [kind |-> "main", name |-> MainName]
    ELSE [kind |-> "package", name |-> caller.packageName]
EvalFlag(caller) == caller # Null /\ caller.isEval

(***************************************************************************)
(* Policy model (sections 3, 4.1 and 4.8)                                  *)
(***************************************************************************)
SetChoices == {{}, {"A"}, {Wildcard}}
PackagePolicies ==
    {pol \in [allowed : SetChoices, canWrite : SetChoices, canDelete : SetChoices] :
        Cardinality({f \in {"allowed", "canWrite", "canDelete"} : pol[f] # {}}) <= MaxGrantSets}
EmptyPolicy == [allowed |-> {}, canWrite |-> {}, canDelete |-> {}]
OptionRecords ==
    [failClosed : BOOLEAN, protectWrites : BOOLEAN, protectDeletes : BOOLEAN,
     protectEnumeration : BOOLEAN, allowEval : BOOLEAN, treatMainAsUnrestricted : BOOLEAN]
DefaultOptions ==
    [failClosed |-> TRUE, protectWrites |-> TRUE, protectDeletes |-> TRUE,
     protectEnumeration |-> TRUE, allowEval |-> FALSE, treatMainAsUnrestricted |-> TRUE]
\* A configuration document: package p has an entry or none, package q never
\* has one; the __options__ entry is present or absent (Null).
RawConfigs ==
    [packages : {<<>>} \cup {[n \in {"p"} |-> pol] : pol \in PackagePolicies},
     options : OptionRecords \cup {Null}]
\* The configuration loader: an absent __options__ entry gives the defaults.
LoadConfig(raw) ==
    [packages |-> raw.packages,
     options |-> IF raw.options = Null THEN DefaultOptions ELSE raw.options]
\* A missing package entry yields an empty policy.
PolicyOf(policy, name) ==
    IF name \in DOMAIN policy.packages THEN policy.packages[name] ELSE EmptyPolicy
Granted(pol) == pol.allowed \cup pol.canWrite \cup pol.canDelete
mayRead(pol, v) == v \in Granted(pol) \/ Wildcard \in Granted(pol)
mayWrite(pol, v) == v \in pol.canWrite \/ Wildcard \in pol.canWrite
mayDelete(pol, v) == v \in pol.canDelete \/ Wildcard \in pol.canDelete
visibleKeys(pol, allKeys) ==
    IF Wildcard \in Granted(pol) THEN allKeys ELSE allKeys \cap Granted(pol)

(***************************************************************************)
(* Decision engine (section 4.3).  The rules are applied in order.  No     *)
(* rule covers identity main when treatMainAsUnrestricted is false; there  *)
(* the verdict is left open: u chooses it.                                 *)
(***************************************************************************)
Allow == [allow |-> TRUE, reason |-> "NONE"]
Deny(reason) == [allow |-> FALSE, reason |-> reason]
Unprotected(op, o) ==
    \/ op = "write" /\ ~o.protectWrites
    \/ op = "delete" /\ ~o.protectDeletes
    \/ op = "enumerate" /\ ~o.protectEnumeration
\* The rules without rule 3: identity unknown falls through all of them.
decideWithoutUnknownRule(id, op, var, policy, isEval, u) ==
    LET o == policy.options
        pol == PolicyOf(policy, id.name)
    IN  IF id.kind = "main" /\ o.treatMainAsUnrestricted THEN Allow
        ELSE IF Unprotected(op, o) THEN Allow
        ELSE IF isEval /\ ~o.allowEval THEN Deny("EVAL_CONTEXT")
        ELSE IF id.kind = "package"
            THEN CASE op = "read" ->
                        IF mayRead(pol, var) THEN Allow ELSE Deny("UNAUTHORIZED_READ")
                   [] op = "write" ->
                        IF mayWrite(pol, var) THEN Allow ELSE Deny("UNAUTHORIZED_WRITE")
                   [] op = "delete" ->
                        IF mayDelete(pol, var) THEN Allow ELSE Deny("UNAUTHORIZED_DELETE")
                   [] OTHER -> Allow
        ELSE IF u THEN Allow ELSE Deny("UNSPECIFIED")

decide(id, op, var, policy, isEval, u) ==
    LET o == policy.options
        pol == PolicyOf(policy, id.name)
    IN  IF id.kind = "main" /\ o.treatMainAsUnrestricted THEN Allow
        ELSE IF Unprotected(op, o) THEN Allow
        ELSE IF id.kind = "unknown"
            THEN IF ~o.failClosed THEN Allow ELSE Deny("UNKNOWN_CALLER")
        ELSE IF isEval /\ ~o.allowEval THEN Deny("EVAL_CONTEXT")
        ELSE IF id.kind = "package"
            THEN CASE op = "read" ->
                        IF mayRead(pol, var) THEN Allow ELSE Deny("UNAUTHORIZED_READ")
                   [] op = "write" ->
                        IF mayWrite(pol, var) THEN Allow ELSE Deny("UNAUTHORIZED_WRITE")
                   [] op = "delete" ->
                        IF mayDelete(pol, var) THEN Allow ELSE Deny("UNAUTHORIZED_DELETE")
                   [] OTHER -> Allow
        ELSE IF u THEN Allow ELSE Deny("UNSPECIFIED")

(***************************************************************************)
(* Structured failures (section 7)                                         *)
(***************************************************************************)
NoError == [code |-> "none", package |-> "", variable |-> "", operation |-> ""]
Failure(code, package, variable, operation) ==
    [code |-> code, package |-> package, variable |-> variable, operation |-> operation]
ErrorCode(reason) ==
    CASE reason = "UNKNOWN_CALLER" -> "ERR_DOTNOPE_UNKNOWN_CALLER"
      [] reason = "EVAL_CONTEXT" -> "ERR_DOTNOPE_EVAL_CONTEXT"
      [] OTHER -> "ERR_DOTNOPE_UNAUTHORIZED"

(***************************************************************************)
(* The functions lib/dotnope.js gives to the mediator.  fn is the closure: *)
(* the configuration it was built from.                                    *)
(***************************************************************************)
\* checkFn(envVar, operation): returns, or raises the failure of the verdict.
checkAccess(fn, caller, envVar, operation, u) ==
    LET id == IdentityOf(caller)
        verdict == decide(id, operation, envVar, LoadConfig(fn), EvalFlag(caller), u)
    IN  IF verdict.allow THEN NoError
        ELSE Failure(ErrorCode(verdict.reason), id.name, envVar, operation)
\* filterFn(allKeys): the filtered keys, or null to skip filtering.  A denial
\* of enumeration is silent: the keys are omitted, nothing is raised.
filterKeys(fn, caller, allKeys, u) ==
    LET id == IdentityOf(caller)
        policy == LoadConfig(fn)
        verdict == decide(id, "enumerate", "", policy, EvalFlag(caller), u)
    IN  IF ~verdict.allow THEN [null |-> FALSE, keys |-> {}]
        ELSE IF id.kind = "package" /\ policy.options.protectEnumeration
            THEN [null |-> FALSE, keys |-> visibleKeys(PolicyOf(policy, id.name), allKeys)]
        ELSE [null |-> TRUE, keys |-> {}]

(***************************************************************************)
(* State                                                                   *)
(***************************************************************************)
VARIABLES
    env,               \* contents of the original process.env object
    processEnv,        \* process.env: the object the runtime publishes
    originalEnv,       \* lib/proxy.js module state
    proxyEnv,
    isEnabled,
    checkAccessFn,
    filterKeysFn,
    proxyOptions,
    proxyInstalledAt,
    handle,            \* the control handle of the active installation
    last,              \* the call in progress and its outcome, Idle between calls
    native,            \* lib/native-bridge.js module state
    nativeAvailable,
    initializationError,
    integrityVerified,
    integrityError,
    nativeInvoked,     \* the functions of the native helper run so far, require included
    parserLoaded,      \* lib/stack-parser.js has been loaded
    prepareStackTrace, \* Error.prepareStackTrace
    hookWritable,      \* the property Error.prepareStackTrace can be assigned
    stackTraceLimit,   \* Error.stackTraceLimit
    tamperingDetected, \* lib/stack-parser.js module state
    packageCache

bridgeVars == <<native, nativeAvailable, initializationError, integrityVerified,
                integrityError, nativeInvoked>>
parserVars == <<parserLoaded, prepareStackTrace, hookWritable, stackTraceLimit,
                tamperingDetected, packageCache>>
vars == <<env, processEnv, originalEnv, proxyEnv, isEnabled, checkAccessFn,
          filterKeysFn, proxyOptions, proxyInstalledAt, handle, last, bridgeVars, parserVars>>
proxyVars == <<processEnv, originalEnv, proxyEnv, isEnabled, checkAccessFn,
               filterKeysFn, proxyOptions, proxyInstalledAt>>

Keys(target) == {k \in EnvVars : target[k] # Undefined}
ReadProp(target, prop) == IF prop \in EnvVars THEN target[prop] ELSE Undefined
HasProp(target, prop) == IF ReadProp(target, prop) # Undefined THEN "true" ELSE "false"

\* The outcome of a call: a raised failure or a returned value / key list,
\* the store it leaves, and whether the check function or the key filter ran.
Outcome(error, value, keys, target, checked) ==
    [error |-> error, value |-> value, keys |-> keys, target |-> target, checked |-> checked]
Returns(value, target, checked) == Outcome(NoError, value, {}, target, checked)
Throws(error, target) == Outcome(error, Undefined, {}, target, TRUE)

Call(op, caller, prop, arg, out) ==
    [op |-> op, caller |-> caller, prop |-> prop, arg |-> arg, error |-> out.error,
     value |-> out.value, keys |-> out.keys, checked |-> out.checked]
Idle == Call("idle", Null, "", "", Returns(Undefined, <<>>, FALSE))

(***************************************************************************)
(* lib/proxy.js.  M is the module state; each exported function maps the   *)
(* module state before the call to the module state after it.  threw tells *)
(* that the call raised.                                                   *)
(***************************************************************************)
M ==
    [processEnv |-> processEnv, originalEnv |-> originalEnv, proxyEnv |-> proxyEnv,
     isEnabled |-> isEnabled, checkAccessFn |-> checkAccessFn,
     filterKeysFn |-> filterKeysFn, proxyOptions |-> proxyOptions,
     proxyInstalledAt |-> proxyInstalledAt, threw |-> FALSE]

\* Faulty variant: the guard against a second Proxy is missing.
createEnvProxyUnguarded(m, checkFn, options) ==
    [m EXCEPT
        !.checkAccessFn = checkFn,
        !.proxyOptions = [protectWrites |-> options.protectWrites # FALSE,
                          protectDeletes |-> options.protectDeletes # FALSE,
                          protectEnumeration |-> options.protectEnumeration # FALSE],
        !.originalEnv = m.processEnv,
        !.proxyEnv = ProxyRef(m.proxyInstalledAt + 1),
        !.processEnv = ProxyRef(m.proxyInstalledAt + 1),
        !.proxyInstalledAt = m.proxyInstalledAt + 1]

\* Date.now() is the ordinal of the installation; it also names the Proxy
\* object the installation creates.
createEnvProxy(m, checkFn, options) ==
    IF m.proxyEnv # Null THEN [m EXCEPT !.threw = TRUE]
    ELSE [m EXCEPT
            !.checkAccessFn = checkFn,
            !.proxyOptions = [protectWrites |-> options.protectWrites # FALSE,
                              protectDeletes |-> options.protectDeletes # FALSE,
                              protectEnumeration |-> options.protectEnumeration # FALSE],
            !.originalEnv = m.processEnv,
            !.proxyEnv = ProxyRef(m.proxyInstalledAt + 1),
            !.processEnv = ProxyRef(m.proxyInstalledAt + 1),
            !.proxyInstalledAt = m.proxyInstalledAt + 1]

enable(m) == [m EXCEPT !.isEnabled = TRUE]

disable(m) == [m EXCEPT !.isEnabled = FALSE]

\* Faulty variant: restore that leaves the module state as it is.
restoreNothing(m) == m

\* Faulty variant: restore that keeps the reference to the Proxy.
restoreKeepsProxyEnv(m) ==
    IF m.originalEnv # Null
    THEN [m EXCEPT !.processEnv = m.originalEnv, !.isEnabled = FALSE,
                   !.checkAccessFn = Null, !.filterKeysFn = Null, !.proxyOptions = Null]
    ELSE m

\* Faulty variant: restore that leaves the Proxy published as process.env.
restoreLeavesWrapper(m) ==
    IF m.originalEnv # Null
    THEN [m EXCEPT !.isEnabled = FALSE, !.proxyEnv = Null,
                   !.checkAccessFn = Null, !.filterKeysFn = Null, !.proxyOptions = Null]
    ELSE m

restore(m) ==
    IF m.originalEnv # Null
    THEN [m EXCEPT !.processEnv = m.originalEnv, !.isEnabled = FALSE, !.proxyEnv = Null,
                   !.checkAccessFn = Null, !.filterKeysFn = Null, !.proxyOptions = Null]
    ELSE m

setFilterKeysFn(m, filterFn) == [m EXCEPT !.filterKeysFn = filterFn]

isStrictModeEnabled == isEnabled

getProxyStatus ==
    [isEnabled |-> isEnabled, installedAt |-> proxyInstalledAt, hasProxy |-> proxyEnv # Null]

\* The module state after a call.
Apply(m) ==
    /\ processEnv' = m.processEnv
    /\ originalEnv' = m.originalEnv
    /\ proxyEnv' = m.proxyEnv
    /\ isEnabled' = m.isEnabled
    /\ checkAccessFn' = m.checkAccessFn
    /\ filterKeysFn' = m.filterKeysFn
    /\ proxyOptions' = m.proxyOptions
    /\ proxyInstalledAt' = m.proxyInstalledAt

(***************************************************************************)
(* The traps of the Proxy handler.  The target of every Proxy is the       *)
(* original process.env object, whose contents are env.                    *)
(***************************************************************************)
\* Faulty variant: the traps check whether or not enforcement is enabled.
CheckingWhenDisabled == checkAccessFn # Null

\* isEnabled && checkAccessFn
Checking == isEnabled /\ checkAccessFn # Null

(***************************************************************************)
(* Faulty variants of the traps.  Each drops or misplaces one step of the  *)
(* trap it stands for; a property that is about that step fails under it.  *)
(***************************************************************************)
\* get without the access check
TrapGetUnchecked(caller, prop, u) == Returns(ReadProp(env, prop), env, FALSE)

\* set that writes to the target before it checks
TrapSetWriteFirst(caller, prop, value, u) ==
    LET check == Checking /\ proxyOptions.protectWrites /\ IsString(prop)
        err == IF check THEN checkAccess(checkAccessFn, caller, prop, "write", u) ELSE NoError
    IN  IF err # NoError THEN Throws(err, [env EXCEPT ![prop] = value])
        ELSE Returns("true", [env EXCEPT ![prop] = value], check)

\* has without the access check
TrapHasUnchecked(caller, prop, u) == Returns(HasProp(env, prop), env, FALSE)

\* has that asks for the operation write
TrapHasAsWrite(caller, prop, u) ==
    LET check == Checking /\ IsString(prop)
        err == IF check THEN checkAccess(checkAccessFn, caller, prop, "write", u) ELSE NoError
    IN  IF err # NoError THEN Throws(err, env)
        ELSE Returns(HasProp(env, prop), env, check)

\* deleteProperty that asks for the operation write
TrapDeletePropertyAsWrite(caller, prop, u) ==
    LET check == Checking /\ proxyOptions.protectDeletes /\ IsString(prop)
        err == IF check THEN checkAccess(checkAccessFn, caller, prop, "write", u) ELSE NoError
    IN  IF err # NoError THEN Throws(err, env)
        ELSE Returns("true", [env EXCEPT ![prop] = Undefined], check)

\* ownKeys that takes a null result of the filter for an empty key list
TrapOwnKeysNullAsEmpty(caller, u) ==
    IF isEnabled /\ proxyOptions = Null
    THEN Throws(Failure("TypeError", "", "", ""), env)
    ELSE IF isEnabled /\ proxyOptions.protectEnumeration /\ filterKeysFn # Null
    THEN Outcome(NoError, Undefined, filterKeys(filterKeysFn, caller, Keys(env), u).keys,
                 env, TRUE)
    ELSE Outcome(NoError, Undefined, Keys(env), env, FALSE)

\* ownKeys that never filters
TrapOwnKeysUnfiltered(caller, u) == Outcome(NoError, Undefined, Keys(env), env, FALSE)

\* ownKeys that returns the first key of the filtered list only
TrapOwnKeysTruncated(caller, u) ==
    IF isEnabled /\ proxyOptions = Null
    THEN Throws(Failure("TypeError", "", "", ""), env)
    ELSE IF isEnabled /\ proxyOptions.protectEnumeration /\ filterKeysFn # Null
    THEN LET filteredKeys == filterKeys(filterKeysFn, caller, Keys(env), u)
         IN  IF ~filteredKeys.null
             THEN Outcome(NoError, Undefined, filteredKeys.keys \cap {"A"}, env, TRUE)
             ELSE Outcome(NoError, Undefined, Keys(env), env, TRUE)
    ELSE Outcome(NoError, Undefined, Keys(env), env, FALSE)

\* getOwnPropertyDescriptor without the access check
TrapGetOwnPropertyDescriptorUnchecked(caller, prop, u) ==
    Returns(ReadProp(env, prop), env, FALSE)

\* defineProperty that checks whatever protectWrites says
TrapDefinePropertyAlwaysChecked(caller, prop, value, u) ==
    LET check == Checking /\ IsString(prop)
        err == IF check THEN checkAccess(checkAccessFn, caller, prop, "write", u) ELSE NoError
    IN  IF err # NoError THEN Throws(err, env)
        ELSE Returns("true", [env EXCEPT ![prop] = value], check)

\* get whose verdict depends on the installation time: the first
\* installation forgives every denial
TrapGetByInstallTime(caller, prop, u) ==
    IF IsSymbol(prop) THEN Returns(ReadProp(env, prop), env, FALSE)
    ELSE IF prop = "inspect" THEN Returns(ReadProp(env, prop), env, FALSE)
    ELSE LET err == IF Checking /\ proxyInstalledAt > 1
                    THEN checkAccess(checkAccessFn, caller, prop, "read", u) ELSE NoError
         IN  IF err # NoError THEN Throws(err, env)
             ELSE Returns(ReadProp(env, prop), env, Checking)

\* getOwnPropertyDescriptor that asks for the operation write
TrapGetOwnPropertyDescriptorAsWrite(caller, prop, u) ==
    LET check == Checking /\ IsString(prop)
        err == IF check THEN checkAccess(checkAccessFn, caller, prop, "write", u) ELSE NoError
    IN  IF err # NoError THEN Throws(err, env)
        ELSE Returns(ReadProp(env, prop), env, check)

TrapGet(caller, prop, u) ==
    IF IsSymbol(prop) THEN Returns(ReadProp(env, prop), env, FALSE)
    ELSE IF prop = "inspect" THEN Returns(ReadProp(env, prop), env, FALSE)
    ELSE LET err == IF Checking
                    THEN checkAccess(checkAccessFn, caller, prop, "read", u) ELSE NoError
         IN  IF err # NoError THEN Throws(err, env)
             ELSE Returns(ReadProp(env, prop), env, Checking)

TrapSet(caller, prop, value, u) ==
    LET check == Checking /\ proxyOptions.protectWrites /\ IsString(prop)
        err == IF check THEN checkAccess(checkAccessFn, caller, prop, "write", u) ELSE NoError
    IN  IF err # NoError THEN Throws(err, env)
        ELSE Returns("true", [env EXCEPT ![prop] = value], check)

TrapHas(caller, prop, u) ==
    LET check == Checking /\ IsString(prop)
        err == IF check THEN checkAccess(checkAccessFn, caller, prop, "read", u) ELSE NoError
    IN  IF err # NoError THEN Throws(err, env)
        ELSE Returns(HasProp(env, prop), env, check)

TrapDeleteProperty(caller, prop, u) ==
    LET check == Checking /\ proxyOptions.protectDeletes /\ IsString(prop)
        err == IF check THEN checkAccess(checkAccessFn, caller, prop, "delete", u) ELSE NoError
    IN  IF err # NoError THEN Throws(err, env)
        ELSE Returns("true", [env EXCEPT ![prop] = Undefined], check)

\* isEnabled && proxyOptions.protectEnumeration raises a TypeError when
\* enforcement is enabled and proxyOptions is null.
TrapOwnKeys(caller, u) ==
    IF isEnabled /\ proxyOptions = Null
    THEN Throws(Failure("TypeError", "", "", ""), env)
    ELSE IF isEnabled /\ proxyOptions.protectEnumeration /\ filterKeysFn # Null
    THEN LET filteredKeys == filterKeys(filterKeysFn, caller, Keys(env), u)
         IN  IF ~filteredKeys.null
             THEN Outcome(NoError, Undefined, filteredKeys.keys, env, TRUE)
             ELSE Outcome(NoError, Undefined, Keys(env), env, TRUE)
    ELSE Outcome(NoError, Undefined, Keys(env), env, FALSE)

TrapGetOwnPropertyDescriptor(caller, prop, u) ==
    LET check == Checking /\ IsString(prop)
        err == IF check THEN checkAccess(checkAccessFn, caller, prop, "read", u) ELSE NoError
    IN  IF err # NoError THEN Throws(err, env)
        ELSE Returns(ReadProp(env, prop), env, check)

TrapDefineProperty(caller, prop, value, u) ==
    LET check == Checking /\ proxyOptions.protectWrites /\ IsString(prop)
        err == IF check THEN checkAccess(checkAccessFn, caller, prop, "write", u) ELSE NoError
    IN  IF err # NoError THEN Throws(err, env)
        ELSE Returns("true", [env EXCEPT ![prop] = value], check)

(***************************************************************************)
(* Environment accesses.  The caller reaches the object process.env names: *)
(* the Proxy while a mediator is installed, the original object otherwise. *)
(***************************************************************************)
Finish(op, caller, prop, arg, out) ==
    /\ last' = Call(op, caller, prop, arg, out)
    /\ env' = out.target
    /\ UNCHANGED <<proxyVars, handle, bridgeVars, parserVars>>

Get(caller, prop, u) ==
    /\ last = Idle
    /\ Finish("get", caller, prop, "",
              IF IsProxy(processEnv) THEN TrapGet(caller, prop, u)
              ELSE Returns(ReadProp(env, prop), env, FALSE))

Set(caller, prop, value, u) ==
    /\ last = Idle
    /\ Finish("set", caller, prop, value,
              IF IsProxy(processEnv) THEN TrapSet(caller, prop, value, u)
              ELSE Returns("true", [env EXCEPT ![prop] = value], FALSE))

Has(caller, prop, u) ==
    /\ last = Idle
    /\ Finish("has", caller, prop, "",
              IF IsProxy(processEnv) THEN TrapHas(caller, prop, u)
              ELSE Returns(HasProp(env, prop), env, FALSE))

DeleteProperty(caller, prop, u) ==
    /\ last = Idle
    /\ Finish("deleteProperty", caller, prop, "",
              IF IsProxy(processEnv) THEN TrapDeleteProperty(caller, prop, u)
              ELSE Returns("true", [env EXCEPT ![prop] = Undefined], FALSE))

OwnKeys(caller, u) ==
    /\ last = Idle
    /\ Finish("ownKeys", caller, "", "",
              IF IsProxy(processEnv) THEN TrapOwnKeys(caller, u)
              ELSE Outcome(NoError, Undefined, Keys(env), env, FALSE))

GetOwnPropertyDescriptor(caller, prop, u) ==
    /\ last = Idle
    /\ Finish("getOwnPropertyDescriptor", caller, prop, "",
              IF IsProxy(processEnv) THEN TrapGetOwnPropertyDescriptor(caller, prop, u)
              ELSE Returns(ReadProp(env, prop), env, FALSE))

DefineProperty(caller, prop, value, u) ==
    /\ last = Idle
    /\ Finish("defineProperty", caller, prop, value,
              IF IsProxy(processEnv) THEN TrapDefineProperty(caller, prop, value, u)
              ELSE Returns("true", [env EXCEPT ![prop] = value], FALSE))

\* Object.keys(process.env) and Object.entries(process.env), as the language
\* runs them on the object: the own keys first, then for every key, in the
\* order of the list, its descriptor and (for the entries) its value; the
\* first failure ends the call.  first is the key that comes first among
\* those that fail.
OwnKeysOf(caller, u) ==
    IF IsProxy(processEnv) THEN TrapOwnKeys(caller, u)
    ELSE Outcome(NoError, Undefined, Keys(env), env, FALSE)
DescriptorOf(caller, prop, u) ==
    IF IsProxy(processEnv) THEN TrapGetOwnPropertyDescriptor(caller, prop, u)
    ELSE Returns(ReadProp(env, prop), env, FALSE)
ValueOfKey(caller, prop, u) ==
    IF IsProxy(processEnv) THEN TrapGet(caller, prop, u)
    ELSE Returns(ReadProp(env, prop), env, FALSE)
\* The step of the loop at which the key fails, or NoError.
FailureAt(caller, prop, u, withValues) ==
    IF DescriptorOf(caller, prop, u).error # NoError THEN DescriptorOf(caller, prop, u).error
    ELSE IF withValues /\ DescriptorOf(caller, prop, u).value # Undefined
    THEN ValueOfKey(caller, prop, u).error
    ELSE NoError
EnumerableOwnProperties(caller, first, u, withValues) ==
    LET own == OwnKeysOf(caller, u)
        failing == {k \in own.keys : FailureAt(caller, k, u, withValues) # NoError}
        checked == own.checked \/ \E k \in own.keys : DescriptorOf(caller, k, u).checked
    IN  IF own.error # NoError THEN [prop |-> "", out |-> own]
        ELSE IF failing # {}
        THEN LET k == IF first \in failing THEN first ELSE CHOOSE f \in failing : TRUE
             IN  [prop |-> k, out |-> Throws(FailureAt(caller, k, u, withValues), env)]
        ELSE [prop |-> "",
              out |-> Outcome(NoError, Undefined,
                              {k \in own.keys : DescriptorOf(caller, k, u).value # Undefined},
                              env, checked)]

ObjectKeys(caller, first, u) ==
    /\ last = Idle
    /\ LET result == EnumerableOwnProperties(caller, first, u, FALSE)
       IN  Finish("Object.keys", caller, result.prop, "", result.out)

ObjectEntries(caller, first, u) ==
    /\ last = Idle
    /\ LET result == EnumerableOwnProperties(caller, first, u, TRUE)
       IN  Finish("Object.entries", caller, result.prop, "", result.out)

\* The caller takes the result (or catches the failure) and goes on.
Return ==
    /\ last # Idle
    /\ last' = Idle
    /\ UNCHANGED <<env, proxyVars, handle, bridgeVars, parserVars>>

(***************************************************************************)
(* Programmatic surface (sections 4.7 and 6): enableStrictEnv, the handle's*)
(* disable(token) and the legacy disableStrictEnv.                         *)
(***************************************************************************)
Token(n) == [tok |-> n]
\* Tokens are numbered: n > 0 is the token of installation n, 0 stands for the
\* empty string and -1 for a string that is no installation's token.
WrongToken == [tok |-> -1]
EmptyToken == [tok |-> 0]
Tokens == {Null, EmptyToken, WrongToken} \cup {Token(n) : n \in 1..MaxInstalls}

ApiCall(op, code) ==
    Call(op, Null, "", "",
         IF code = "none" THEN Returns(Undefined, env, FALSE)
         ELSE Outcome(Failure(code, "", "", ""), Undefined, {}, env, FALSE))

\* The finished call enableStrictEnv; arg holds the configuration given.
EnableCall(raw, code) == [ApiCall("enableStrictEnv", code) EXCEPT !.arg = raw]

EnableStrictEnv(raw) ==
    /\ last = Idle
    /\ proxyEnv # Null \/ proxyInstalledAt < MaxInstalls
    /\ LET created == createEnvProxy(M, raw, LoadConfig(raw).options)
       IN  IF created.threw
           THEN /\ Apply(created)
                /\ last' = EnableCall(raw, "ERR_DOTNOPE_ALREADY_INSTALLED")
                /\ UNCHANGED <<env, handle, bridgeVars, parserVars>>
           ELSE /\ Apply(enable(setFilterKeysFn(created, raw)))
                /\ handle' = [token |-> Token(created.proxyInstalledAt),
                              installedAt |-> created.proxyInstalledAt]
                /\ last' = EnableCall(raw, "none")
                /\ UNCHANGED <<env, bridgeVars, parserVars>>

\* The finished call handle.disable(token); arg holds the token presented.
DisableCall(token, code) == [ApiCall("disable", code) EXCEPT !.arg = token]

HandleDisable(token) ==
    /\ last = Idle
    /\ handle # Null
    /\ IF token = handle.token
       THEN /\ Apply(restore(M))
            /\ handle' = Null
            /\ last' = DisableCall(token, "none")
            /\ UNCHANGED <<env, bridgeVars, parserVars>>
       ELSE /\ last' = DisableCall(token, "ERR_DOTNOPE_INVALID_TOKEN")
            /\ UNCHANGED <<env, proxyVars, handle, bridgeVars, parserVars>>

\* Faulty variant: the legacy call tears the mediator down without a token.
DisableStrictEnvRestores ==
    /\ last = Idle
    /\ Apply(restore(M))
    /\ handle' = Null
    /\ last' = ApiCall("disableStrictEnv", "ERR_DOTNOPE_DEPRECATED")
    /\ UNCHANGED <<env, bridgeVars, parserVars>>

DisableStrictEnv ==
    /\ last = Idle
    /\ last' = ApiCall("disableStrictEnv", "ERR_DOTNOPE_DEPRECATED")
    /\ UNCHANGED <<env, proxyVars, handle, bridgeVars, parserVars>>

(***************************************************************************)
(* Specification of the programmatic surface                               *)
(***************************************************************************)
\* Error.stackTraceLimit before any code changes it (V8's default).
DefaultStackTraceLimit == 10

Init ==
    /\ env = [k \in EnvVars |-> "x"]
    /\ processEnv = StoreRef
    /\ originalEnv = Null
    /\ proxyEnv = Null
    /\ isEnabled = FALSE
    /\ checkAccessFn = Null
    /\ filterKeysFn = Null
    /\ proxyOptions = Null
    /\ proxyInstalledAt = 0
    /\ handle = Null
    /\ last = Idle
    /\ native = Null
    /\ nativeAvailable = FALSE
    /\ initializationError = Null
    /\ integrityVerified = FALSE
    /\ integrityError = Null
    /\ nativeInvoked = {}
    /\ parserLoaded = FALSE
    /\ prepareStackTrace = "undefined"
    /\ hookWritable = TRUE
    /\ stackTraceLimit = DefaultStackTraceLimit
    /\ tamperingDetected = FALSE
    /\ packageCache = <<>>

\* The configurations of the installations attempted after the first one,
\* with or without a mediator installed.
ReinstallConfigs ==
    {raw \in RawConfigs :
        /\ raw.packages = <<>>
        /\ raw.options = Null \/ raw.options = [o \in DOMAIN DefaultOptions |-> FALSE]}
\* The open verdict of decide is drawn for the callers it can concern.
Open(c) == IF c # Null /\ c.packageName = MainName THEN BOOLEAN ELSE {TRUE}

Next ==
    \/ \E raw \in (IF proxyInstalledAt = 0 THEN RawConfigs ELSE ReinstallConfigs) :
            EnableStrictEnv(raw)
    \/ \E token \in Tokens : HandleDisable(token)
    \/ DisableStrictEnv
    \/ \E c \in Callers, prop \in Props : \E u \in Open(c) : Get(c, prop, u)
    \/ \E c \in Callers, prop \in EnvVars, v \in Values : \E u \in Open(c) : Set(c, prop, v, u)
    \/ \E c \in Callers, prop \in Props : \E u \in Open(c) : Has(c, prop, u)
    \/ \E c \in Callers, prop \in EnvVars : \E u \in Open(c) : DeleteProperty(c, prop, u)
    \/ \E c \in Callers : \E u \in Open(c) : OwnKeys(c, u)
    \/ \E c \in Callers, prop \in Props : \E u \in Open(c) : GetOwnPropertyDescriptor(c, prop, u)
    \/ \E c \in Callers, prop \in EnvVars, v \in Values : \E u \in Open(c) :
            DefineProperty(c, prop, v, u)
    \/ \E c \in Callers, first \in EnvVars : \E u \in Open(c) : ObjectKeys(c, first, u)
    \/ \E c \in Callers, first \in EnvVars : \E u \in Open(c) : ObjectEntries(c, first, u)
    \/ Return

Spec == Init /\ [][Next]_vars

(***************************************************************************)
(* Specification of lib/proxy.js on its own: its exported functions called *)
(* in any order by the module that owns the mediator, and the accesses to  *)
(* process.env in between.                                                 *)
(***************************************************************************)
\* The finished call op(arg) of an exported function of lib/proxy.js.
ProxyCall(op, arg, threw) ==
    [ApiCall(op, IF threw THEN "Error" ELSE "none") EXCEPT !.arg = arg]

FinishProxy(op, arg, m) ==
    /\ last = Idle
    /\ Apply(m)
    /\ last' = ProxyCall(op, arg, m.threw)
    /\ UNCHANGED <<env, handle, bridgeVars, parserVars>>

CreateEnvProxy(raw) ==
    /\ proxyEnv # Null \/ proxyInstalledAt < MaxInstalls
    /\ FinishProxy("createEnvProxy", raw, createEnvProxy(M, raw, LoadConfig(raw).options))

SetFilterKeysFn(filterFn) == FinishProxy("setFilterKeysFn", filterFn, setFilterKeysFn(M, filterFn))

Enable == FinishProxy("enable", "", enable(M))

Disable == FinishProxy("disable", "", disable(M))

Restore == FinishProxy("restore", "", restore(M))

\* The check functions handed to createEnvProxy: the options other than
\* the three protect* ones are the defaults.
MediatorConfigs ==
    {raw \in RawConfigs :
        \/ raw.options = Null
        \/ raw.options.failClosed /\ ~raw.options.allowEval
               /\ raw.options.treatMainAsUnrestricted}
\* The key filter is the one of the check function, or none.
FilterFns == {Null} \cup (IF checkAccessFn = Null THEN {} ELSE {checkAccessFn})

MediatorNext ==
    \/ \E raw \in (IF proxyInstalledAt = 0 THEN MediatorConfigs ELSE ReinstallConfigs) :
            CreateEnvProxy(raw)
    \/ \E filterFn \in FilterFns : SetFilterKeysFn(filterFn)
    \/ Enable
    \/ Disable
    \/ Restore
    \/ \E c \in Callers, prop \in Props : \E u \in Open(c) : Get(c, prop, u)
    \/ \E c \in Callers, prop \in EnvVars, v \in Values : \E u \in Open(c) : Set(c, prop, v, u)
    \/ \E c \in Callers, prop \in Props : \E u \in Open(c) : Has(c, prop, u)
    \/ \E c \in Callers, prop \in EnvVars : \E u \in Open(c) : DeleteProperty(c, prop, u)
    \/ \E c \in Callers : \E u \in Open(c) : OwnKeys(c, u)
    \/ \E c \in Callers, prop \in Props : \E u \in Open(c) : GetOwnPropertyDescriptor(c, prop, u)
    \/ \E c \in Callers, prop \in EnvVars, v \in Values : \E u \in Open(c) :
            DefineProperty(c, prop, v, u)
    \/ Return

MediatorSpec == Init /\ [][MediatorNext]_vars

(***************************************************************************)
(* lib/preload-generator.js: the DOTNOPE_POLICY string generated from the  *)
(* whitelist.  A string is the sequence of its characters.  A whitelist is *)
(* the sequence of the entries of the JavaScript object, in insertion      *)
(* order: [name, value], the value an array of names, [array |-> ...], or  *)
(* a record of arrays.                                                     *)
(***************************************************************************)
\* Number of array elements in one whitelist.
MaxNamed == 3

PolicyVars == {"A", "B"}
Fields == {"allowed", "canWrite", "canDelete"}
OptionsName == "__options__"
Chars(name) == <<name>>
Comma == ","
StarString == Chars(Wildcard)

\* charCodeAt(0) of the characters that occur
CharCode(ch) == CASE ch = "*" -> 42 [] ch = "," -> 44 [] ch = "A" -> 65 [] ch = "B" -> 66

\* The order of Array.prototype.sort() without comparator: by code units, a
\* proper prefix first.
RECURSIVE Before(_, _)
Before(x, y) ==
    IF x = <<>> THEN y # <<>>
    ELSE IF y = <<>> THEN FALSE
    ELSE IF Head(x) # Head(y) THEN CharCode(Head(x)) < CharCode(Head(y))
    ELSE Before(Tail(x), Tail(y))

\* [...allowedVars].sort() on the strings of a Set
RECURSIVE Sort(_)
Sort(strings) ==
    IF strings = {} THEN <<>>
    ELSE LET least == CHOOSE x \in strings : \A y \in strings \ {x} : Before(x, y)
         IN  <<least>> \o Sort(strings \ {least})

\* array.join(',')
RECURSIVE Join(_)
Join(strings) ==
    IF strings = <<>> THEN <<>>
    ELSE IF Len(strings) = 1 THEN Head(strings)
    ELSE Head(strings) \o <<Comma>> \o Join(Tail(strings))

\* packageConfig.allowed; a property the value does not have is undefined,
\* which the loops skip as they pass an empty array: it stands as <<>>.
Property(value, f) == IF f \in DOMAIN value THEN value[f] ELSE <<>>

\* for (const envVar of array): allowedVars after the loop, or the early
\* return of '*'
StarFound == [star |-> TRUE, allowedVars |-> {}]
RECURSIVE AddAll(_, _)
AddAll(array, acc) ==
    IF acc.star \/ array = <<>> THEN acc
    ELSE IF Head(array) = Wildcard THEN StarFound
    ELSE AddAll(Tail(array), [acc EXCEPT !.allowedVars = @ \cup {Chars(Head(array))}])

RECURSIVE Collect(_, _)
Collect(config, acc) ==
    IF acc.star \/ config = <<>> THEN acc
    ELSE LET packageName == Head(config).name
             packageConfig == Head(config).value
         IN  IF packageName = OptionsName THEN Collect(Tail(config), acc)
             ELSE Collect(Tail(config),
                          AddAll(Property(packageConfig, "canWrite"),
                                 AddAll(Property(packageConfig, "allowed"), acc)))

\* Faulty variant: the names are joined in the order they were met.
generatePolicyUnsorted(config) ==
    LET collected == Collect(config, [star |-> FALSE, allowedVars |-> {}])
        RECURSIVE InOrder(_, _)
        InOrder(entries, seen) ==
            IF entries = <<>> THEN <<>>
            ELSE LET names == Property(Head(entries).value, "allowed")
                              \o Property(Head(entries).value, "canWrite")
                     new == SelectSeq(names, LAMBDA n : Chars(n) \notin seen)
                 IN  IF Head(entries).name = OptionsName \/ new = <<>>
                     THEN InOrder(Tail(entries), seen)
                     ELSE <<Chars(new[1])>>
                          \o InOrder(entries, seen \cup {Chars(new[1])})
    IN  IF collected.star THEN StarString ELSE Join(InOrder(config, {}))

generatePolicy(config) ==
    LET collected == Collect(config, [star |-> FALSE, allowedVars |-> {}])
    IN  IF collected.star THEN StarString ELSE Join(Sort(collected.allowedVars))

\* Array.isArray(rawConfig)
IsArray(rawConfig) == "array" \in DOMAIN rawConfig

\* The normalisation loop of generatePolicyFromPackageJson.
RECURSIVE Normalize(_)
Normalize(whitelist) ==
    IF whitelist = <<>> THEN <<>>
    ELSE LET packageName == Head(whitelist).name
             rawConfig == Head(whitelist).value
         IN  IF packageName = OptionsName THEN Normalize(Tail(whitelist))
             ELSE IF IsArray(rawConfig)
             THEN <<[name |-> packageName,
                     value |-> [allowed |-> rawConfig.array, canWrite |-> <<>>]]>>
                  \o Normalize(Tail(whitelist))
             ELSE <<[name |-> packageName,
                     value |-> [allowed |-> Property(rawConfig, "allowed"),
                                canWrite |-> Property(rawConfig, "canWrite")]]>>
                  \o Normalize(Tail(whitelist))

generatePolicyFromPackageJson(whitelist) == generatePolicy(Normalize(whitelist))

(***************************************************************************)
(* The native allow-set the string denotes (section 4.5, step 1): every    *)
(* name for *, else the names between the commas.                          *)
(***************************************************************************)
RECURSIVE Split(_, _)
Split(string, word) ==
    IF string = <<>> THEN <<word>>
    ELSE IF Head(string) = Comma THEN <<word>> \o Split(Tail(string), <<>>)
    ELSE Split(Tail(string), Append(word, Head(string)))
Words(string) == {w \in {Split(string, <<>>)[i] : i \in 1..Len(Split(string, <<>>))} : w # <<>>}
InAllowSet(string, name) == string = StarString \/ Chars(name) \in Words(string)

(***************************************************************************)
(* The whitelists of the runs.  A whitelist is built from the list of its  *)
(* array elements, each with the package and the array it is in ("array":  *)
(* the package's value is an array); packages and elements keep the order  *)
(* of the list.                                                            *)
(***************************************************************************)
Places == {"array"} \cup Fields
Elements == [package : Packages, place : Places, name : PolicyVars \cup {Wildcard}]
ElementLists == UNION {[1..n -> Elements] : n \in 0..MaxNamed}

RECURSIVE FirstSeen(_, _)
FirstSeen(list, seen) ==
    IF list = <<>> THEN <<>>
    ELSE IF Head(list).package \in seen THEN FirstSeen(Tail(list), seen)
    ELSE <<Head(list).package>> \o FirstSeen(Tail(list), seen \cup {Head(list).package})

RECURSIVE NamesAt(_, _, _)
NamesAt(list, package, place) ==
    IF list = <<>> THEN <<>>
    ELSE IF Head(list).package = package /\ Head(list).place = place
    THEN <<Head(list).name>> \o NamesAt(Tail(list), package, place)
    ELSE NamesAt(Tail(list), package, place)

\* The value of a package is an array when its first element says so.
ValueOf(list, package) ==
    LET first == (SelectSeq(list, LAMBDA e : e.package = package))[1]
    IN  IF first.place = "array" THEN [array |-> NamesAt(list, package, "array")]
        ELSE [f \in Fields |-> NamesAt(list, package, f)]

Whitelist(list, withOptions) ==
    LET order == FirstSeen(list, {})
        entries == [i \in 1..Len(order) |-> [name |-> order[i], value |-> ValueOf(list, order[i])]]
    IN  IF withOptions THEN <<[name |-> OptionsName, value |-> DefaultOptions]>> \o entries
        ELSE entries
Whitelists == {Whitelist(list, o) : list \in ElementLists, o \in BOOLEAN}

(***************************************************************************)
(* Specification of the policy generator                                   *)
(***************************************************************************)
GeneratePolicy(config) ==
    /\ last = Idle
    /\ last' = Call("generatePolicy", Null, "", config,
                    Returns(generatePolicy(config), env, FALSE))
    /\ UNCHANGED <<env, proxyVars, handle, bridgeVars, parserVars>>

GeneratePolicyFromPackageJson(whitelist) ==
    /\ last = Idle
    /\ last' = Call("generatePolicyFromPackageJson", Null, "", whitelist,
                    Returns(generatePolicyFromPackageJson(whitelist), env, FALSE))
    /\ UNCHANGED <<env, proxyVars, handle, bridgeVars, parserVars>>

GeneratorNext ==
    \/ last = Idle /\ \E config \in Whitelists : GeneratePolicy(config)
    \/ last = Idle /\ \E whitelist \in Whitelists : GeneratePolicyFromPackageJson(whitelist)
    \/ Return

GeneratorSpec == Init /\ [][GeneratorNext]_vars

(***************************************************************************)
(* lib/native-bridge.js: integrity verification and loading of the native  *)
(* caller-ID helper.  The files are an input of every call: they may       *)
(* change between two calls.                                               *)
(***************************************************************************)
Contents == {"built", "other"}
Sizes == {100, 200}
Algorithms == {"sha256", "sha512"}
Unset == ""   \* manifest.addon.algorithm missing: falsy, so 'sha256' is used
\* crypto.createHash(algorithm).update(buffer).digest('hex'); distinct
\* contents have distinct digests.
Digest(algorithm, content) == [algorithm |-> algorithm, of |-> content]
\* addon-manifest.json: absent, there but not usable (JSON.parse or
\* manifest.addon raises), or the addon record; algorithm may be missing.
NoManifest == [manifest |-> "absent"]
BadManifest == [manifest |-> "unusable"]
Manifests ==
    {NoManifest, BadManifest}
        \cup [algorithm : Algorithms \cup {Unset},
              hash : {Digest("sha256", c) : c \in Contents}, size : Sizes]
AddonFiles == [content : Contents, size : Sizes]
FileSystems ==
    [addonExists : BOOLEAN, addon : AddonFiles, manifest : Manifests,
     requireThrows : BOOLEAN, initializeThrows : BOOLEAN]

Error(message) == [message |-> message]
Warning(text) == [warning |-> text]
Str(text) == [string |-> text]
Integrity(verified, warning, error) ==
    [verified |-> verified, warning |-> warning, error |-> error]

verifyAddonIntegrity(fs) ==
    IF fs.manifest = NoManifest
    THEN Integrity(FALSE, Warning("No addon-manifest.json found"), Null)
    ELSE IF fs.manifest = BadManifest
    THEN Integrity(FALSE, Warning("Could not verify addon integrity"), Null)
    ELSE LET algorithm == IF fs.manifest.algorithm = Unset THEN "sha256"
                          ELSE fs.manifest.algorithm
             actualHash == Digest(algorithm, fs.addon.content)
         IN  IF actualHash # fs.manifest.hash
             THEN Integrity(FALSE, Null, Error("Native addon integrity check failed"))
             ELSE IF fs.addon.size # fs.manifest.size
             THEN Integrity(FALSE, Null, Error("Native addon size mismatch"))
             ELSE Integrity(TRUE, Null, Null)

\* The module state of lib/native-bridge.js; returned is the value the call
\* returns.
B ==
    [native |-> native, nativeAvailable |-> nativeAvailable,
     initializationError |-> initializationError, integrityVerified |-> integrityVerified,
     integrityError |-> integrityError, nativeInvoked |-> nativeInvoked, returned |-> Null]
Addon == [addon |-> "dotnope_native.node"]
Invoke(b, function) == [b EXCEPT !.nativeInvoked = @ \cup {function}]
Answer(b, value) == [b EXCEPT !.returned = value]
Bool(value) == [bool |-> value]

\* The try block of loadNativeAddon.
TryLoad(b, fs) ==
    IF ~fs.addonExists
    THEN Answer([b EXCEPT !.initializationError = Error("Native addon not built"),
                          !.nativeAvailable = FALSE], Bool(FALSE))
    ELSE LET integrityResult == verifyAddonIntegrity(fs)
             verified == [b EXCEPT !.integrityVerified = integrityResult.verified]
         IN  IF integrityResult.error # Null
             THEN Answer([verified EXCEPT !.integrityError = integrityResult.error,
                                          !.initializationError = integrityResult.error,
                                          !.nativeAvailable = FALSE], Bool(FALSE))
             ELSE IF fs.requireThrows
             THEN Answer([Invoke(verified, "require") EXCEPT
                            !.initializationError = Error("require failed"),
                            !.native = Null, !.nativeAvailable = FALSE], Bool(FALSE))
             ELSE IF fs.initializeThrows
             THEN Answer([Invoke(Invoke(verified, "require"), "initialize") EXCEPT
                            !.initializationError = Error("initialize failed"),
                            !.native = Null, !.nativeAvailable = FALSE], Bool(FALSE))
             ELSE Answer([Invoke(Invoke(verified, "require"), "initialize") EXCEPT
                            !.native = Addon, !.nativeAvailable = TRUE], Bool(TRUE))

\* A loader that tries again after a failure.
loadNativeAddonRetrying(b, fs) ==
    IF b.native # Null THEN Answer(b, Bool(b.nativeAvailable)) ELSE TryLoad(b, fs)

loadNativeAddon(b, fs) ==
    IF b.native # Null \/ b.initializationError # Null THEN Answer(b, Bool(b.nativeAvailable))
    ELSE TryLoad(b, fs)

isNativeAvailableReloading(b, fs) ==
    LET loaded == IF b.native = Null THEN TryLoad(b, fs) ELSE b
    IN  Answer(loaded, Bool(loaded.nativeAvailable))

isNativeAvailable(b, fs) ==
    LET loaded == IF b.native = Null THEN loadNativeAddon(b, fs) ELSE b
    IN  Answer(loaded, Bool(loaded.nativeAvailable))

\* getCallerInfo and getAsyncContext: null without the helper, else what the
\* helper returns, result.
getCallerInfo(b, fs, result) ==
    LET available == isNativeAvailable(b, fs)
    IN  IF ~available.returned.bool THEN Answer(available, Null)
        ELSE Answer(Invoke(available, "getCallerInfo"), result)

getAsyncContext(b, fs, result) ==
    LET available == isNativeAvailable(b, fs)
    IN  IF ~available.returned.bool THEN Answer(available, Null)
        ELSE Answer(Invoke(available, "getAsyncContext"), result)

\* Two of the other functions that call into the helper; getVersion,
\* enablePromiseHooks, disablePromiseHooks, getPromiseStats, isWorkerThread
\* and getIsolateCount stand behind the same guard.  Null stands for the
\* value returned without the helper.
GuardedFunctions == {"captureStackTrace", "cleanup"}
callGuarded(b, fs, function) ==
    LET available == isNativeAvailable(b, fs)
    IN  IF ~available.returned.bool THEN Answer(available, Null)
        ELSE Answer(Invoke(available, function), Str(function))

getSecurityStatus(b) ==
    [nativeAvailable |-> b.nativeAvailable, integrityVerified |-> b.integrityVerified,
     hasIntegrityError |-> b.integrityError # Null,
     initializationError |-> IF b.initializationError # Null
                             THEN Str(b.initializationError.message) ELSE Null]

\* lib/stack-parser.js getCallingPackage: the native backend first, the
\* JavaScript backend when it is not available or returns nothing.
\* nativeResult, asyncContext and jsResult are what the backends return; an
\* async context is null or the name of a package.
AsyncContext(name) == [packageName |-> name]
Resolution(b, backend, result) == Answer(b, [backend |-> backend, result |-> result])
getCallingPackageAnyContext(b, fs, nativeResult, asyncContext, jsResult) ==
    LET available == isNativeAvailable(b, fs)
    IN  IF available.returned.bool
        THEN LET info == getCallerInfo(available, fs, nativeResult)
             IN  IF info.returned # Null THEN Resolution(info, "native", info.returned)
                 ELSE LET context == getAsyncContext(info, fs, asyncContext)
                      IN  IF context.returned # Null
                          THEN Resolution(context, "async",
                                          Caller(context.returned.packageName, FALSE))
                          ELSE Resolution(context, "fallback", jsResult)
        ELSE Resolution(available, "fallback", jsResult)

getCallingPackage(b, fs, nativeResult, asyncContext, jsResult) ==
    LET available == isNativeAvailable(b, fs)
    IN  IF available.returned.bool
        THEN LET info == getCallerInfo(available, fs, nativeResult)
             IN  IF info.returned # Null THEN Resolution(info, "native", info.returned)
                 ELSE LET context == getAsyncContext(info, fs, asyncContext)
                      IN  IF context.returned # Null
                             /\ context.returned.packageName # MainName
                          THEN Resolution(context, "async",
                                          Caller(context.returned.packageName, FALSE))
                          ELSE Resolution(context, "fallback", jsResult)
        ELSE Resolution(available, "fallback", jsResult)

(***************************************************************************)
(* Specification of the native bridge                                      *)
(***************************************************************************)
ApplyBridge(b) ==
    /\ native' = b.native
    /\ nativeAvailable' = b.nativeAvailable
    /\ initializationError' = b.initializationError
    /\ integrityVerified' = b.integrityVerified
    /\ integrityError' = b.integrityError
    /\ nativeInvoked' = b.nativeInvoked

\* The finished call op(...) of the bridge; arg holds the files it found.
BridgeCall(op, fs, value) == Call(op, Null, "", fs, Returns(value, env, FALSE))

FinishBridge(op, fs, b) ==
    /\ ApplyBridge(b)
    /\ last' = BridgeCall(op, fs, b.returned)
    /\ UNCHANGED <<env, proxyVars, handle, parserVars>>

\* verifyAddonIntegrity is called by loadNativeAddon for an addon that exists.
VerifyAddonIntegrity(fs) ==
    /\ fs.addonExists
    /\ last' = BridgeCall("verifyAddonIntegrity", fs, verifyAddonIntegrity(fs))
    /\ UNCHANGED <<env, proxyVars, handle, bridgeVars, parserVars>>

LoadNativeAddon(fs) == FinishBridge("loadNativeAddon", fs, loadNativeAddon(B, fs))

IsNativeAvailable(fs) == FinishBridge("isNativeAvailable", fs, isNativeAvailable(B, fs))

GetCallerInfo(fs, result) == FinishBridge("getCallerInfo", fs, getCallerInfo(B, fs, result))

GetAsyncContext(fs, result) ==
    FinishBridge("getAsyncContext", fs, getAsyncContext(B, fs, result))

CallGuarded(fs, function) == FinishBridge(function, fs, callGuarded(B, fs, function))

GetSecurityStatus == FinishBridge("getSecurityStatus", "", Answer(B, getSecurityStatus(B)))

\* arg holds, with the files found, what the three backends return.
GetCallingPackage(fs, nativeResult, asyncContext, jsResult) ==
    FinishBridge("getCallingPackage",
                 fs @@ [nativeResult |-> nativeResult, asyncContext |-> asyncContext,
                        jsResult |-> jsResult],
                 getCallingPackage(B, fs, nativeResult, asyncContext, jsResult))

AsyncContexts == {Null} \cup {AsyncContext(n) : n \in {MainName, "p"}}
NativeResults == {Null, Caller("p", FALSE), Caller("p", TRUE)}
JSResults == {Null, Caller("q", FALSE)}

BridgeNext ==
    \/ last = Idle /\ \E fs \in FileSystems : VerifyAddonIntegrity(fs)
    \/ last = Idle /\ \E fs \in FileSystems : LoadNativeAddon(fs)
    \/ last = Idle /\ \E fs \in FileSystems : IsNativeAvailable(fs)
    \/ last = Idle /\ \E fs \in FileSystems, result \in NativeResults : GetCallerInfo(fs, result)
    \/ last = Idle /\ \E fs \in FileSystems, result \in AsyncContexts : GetAsyncContext(fs, result)
    \/ last = Idle /\ \E fs \in FileSystems, function \in GuardedFunctions :
            CallGuarded(fs, function)
    \/ last = Idle /\ GetSecurityStatus
    \/ last = Idle /\ \E fs \in FileSystems, nativeResult \in NativeResults,
                         asyncContext \in AsyncContexts, jsResult \in JSResults :
            GetCallingPackage(fs, nativeResult, asyncContext, jsResult)
    \/ Return

BridgeSpec == Init /\ [][BridgeNext]_vars

(***************************************************************************)
(* lib/stack-parser.js: the fallback caller resolution.  A string is the   *)
(* sequence of its tokens: "/app/index.js" is <<"/", "app", "/",           *)
(* "index.js">>.                                                           *)
(***************************************************************************)
Sep == "/"
StartsWith(string, prefix) ==
    Len(string) >= Len(prefix) /\ SubSeq(string, 1, Len(prefix)) = prefix
EndsWith(string, suffix) ==
    Len(string) >= Len(suffix)
        /\ SubSeq(string, Len(string) - Len(suffix) + 1, Len(string)) = suffix
Occurrences(string, part) ==
    {i \in 1..(Len(string) - Len(part) + 1) : SubSeq(string, i, i + Len(part) - 1) = part}
Includes(string, part) == Occurrences(string, part) # {}
\* String.prototype.lastIndexOf: the index counts from 0, -1 for no match.
LastIndexOf(string, part) ==
    IF Occurrences(string, part) = {} THEN -1
    ELSE (CHOOSE i \in Occurrences(string, part) :
              \A j \in Occurrences(string, part) : j <= i) - 1
Slice(string, start) == SubSeq(string, start + 1, Len(string))
\* String.prototype.split(path.sep)
RECURSIVE SplitPath(_, _)
SplitPath(string, part) ==
    IF string = <<>> THEN <<part>>
    ELSE IF Head(string) = Sep THEN <<part>> \o SplitPath(Tail(string), <<>>)
    ELSE SplitPath(Tail(string), Append(part, Head(string)))
\* path.normalize, for the paths that occur: "." segments and repeated
\* separators are dropped (no path here has a ".." segment).
RECURSIVE normalize(_)
normalize(filePath) ==
    IF filePath = <<>> THEN <<>>
    ELSE IF Len(filePath) >= 2 /\ Head(filePath) = "." /\ filePath[2] = Sep
    THEN normalize(SubSeq(filePath, 3, Len(filePath)))
    ELSE IF Len(filePath) >= 2 /\ Head(filePath) = Sep /\ filePath[2] = Sep
    THEN normalize(Tail(filePath))
    ELSE <<Head(filePath)>> \o normalize(Tail(filePath))
\* path.dirname of a normalized path
dirname(filePath) ==
    IF LastIndexOf(filePath, <<Sep>>) <= 0 THEN <<Sep>>
    ELSE SubSeq(filePath, 1, LastIndexOf(filePath, <<Sep>>))

Anonymous == <<"<", "anonymous", ">">>
EVAL_FUNCTION_NAMES == {"eval", "Function", "anonymous"}
EVAL_FILENAME_PATTERNS == {<<"eval at">>, <<"[eval]">>, Anonymous, <<"evalmachine", ".">>}
INTERNAL_PATHS ==
    {<<"lib", Sep, f>> : f \in {"proxy.js", "stack-parser.js", "dotnope.js",
                                "config-loader.js", "dependency-resolver.js"}}

\* The package.json files of the development checkouts: the name field, or
\* "" where the file cannot be read.
DevelopmentRoot == <<Sep, "dev", Sep, "dotnope">>
PackageJsonName(root) == IF root = DevelopmentRoot THEN "dotnope" ELSE ""

\* A stack frame: what getFileName(), getFunctionName(), isEval() and
\* getEvalOrigin() (non-empty or not) return.
Frame(fileName, functionName, isEval, evalOrigin) ==
    [fileName |-> fileName, functionName |-> functionName, isEval |-> isEval,
     evalOrigin |-> evalOrigin]

detectEvalContext(frame) ==
    \/ frame.isEval
    \/ frame.evalOrigin
    \/ \E i \in 1..Len(frame.functionName) : frame.functionName[i] \in EVAL_FUNCTION_NAMES
    \/ \E pattern \in EVAL_FILENAME_PATTERNS : StartsWith(frame.fileName, pattern)
    \/ frame.fileName = <<>> /\ frame.functionName # <<>> /\ frame.functionName # Anonymous

hasEvalInStack(stack) == \E i \in 1..Len(stack) : detectEvalContext(stack[i])

isInternalFile(filePath) ==
    LET normalized == normalize(filePath)
        inModules == Includes(normalized, <<"node_modules", Sep, "dotnope", Sep>>)
        dirName == dirname(normalized)
    IN  \/ inModules /\ \E internalPath \in INTERNAL_PATHS : EndsWith(normalized, internalPath)
        \/ inModules /\ \/ EndsWith(normalized, <<"dotnope", Sep, "index.js">>)
                        \/ EndsWith(normalized, <<"dotnope", Sep, "index.mjs">>)
        \/ /\ EndsWith(dirName, <<Sep, "lib">>)
           /\ ~Includes(normalized, <<"node_modules">>)
           /\ \E internalPath \in INTERNAL_PATHS : EndsWith(normalized, internalPath)
           /\ PackageJsonName(dirname(dirName)) = "dotnope"

NameOfPathOutermost(filePath) ==
    LET normalized == normalize(filePath)
        found == Occurrences(normalized, <<Sep, "node_modules", Sep>>)
    IN  IF found = {} THEN <<MainName>>
        ELSE LET first == CHOOSE i \in found : \A j \in found : i <= j
                 parts == SplitPath(Slice(normalized, first + 2), <<>>)
             IN  IF parts[1] # <<>> /\ Head(parts[1]) = "@"
                 THEN parts[1] \o <<Sep>>
                        \o (IF Len(parts) >= 2 THEN parts[2] ELSE <<"undefined">>)
                 ELSE parts[1]

\* extractPackageName without the cache
NameOfPath(filePath) ==
    LET normalized == normalize(filePath)
        nodeModulesIndex == LastIndexOf(normalized, <<Sep, "node_modules", Sep>>)
    IN  IF nodeModulesIndex = -1 THEN <<MainName>>
        ELSE LET parts == SplitPath(Slice(normalized, nodeModulesIndex + 3), <<>>)
             IN  IF parts[1] # <<>> /\ Head(parts[1]) = "@"
                 THEN parts[1] \o <<Sep>>
                        \o (IF Len(parts) >= 2 THEN parts[2] ELSE <<"undefined">>)
                 ELSE parts[1]

extractPackageNameEvicting(cache, filePath) ==
    IF filePath \in DOMAIN cache THEN [name |-> cache[filePath], cache |-> cache]
    ELSE [name |-> NameOfPath(filePath), cache |-> (filePath :> NameOfPath(filePath))]

\* extractPackageName: the name and the cache it leaves
extractPackageName(cache, filePath) ==
    IF filePath \in DOMAIN cache THEN [name |-> cache[filePath], cache |-> cache]
    ELSE [name |-> NameOfPath(filePath), cache |-> cache @@ (filePath :> NameOfPath(filePath))]

\* Error.stackTraceLimit inside getCallingPackageJS.
StackDepth == 30
TypeError == Failure("TypeError", "", "", "")

\* P is the state the parser works on: the Error.prepareStackTrace hook
\* ("undefined" or "user"), whether the property is writable,
\* Error.stackTraceLimit and the package cache.
P == [prepareStackTrace |-> prepareStackTrace, hookWritable |-> hookWritable,
      stackTraceLimit |-> stackTraceLimit, packageCache |-> packageCache]
Parsed(p, value, threw) == [state |-> p, returned |-> value, threw |-> threw]

CallerInfo(packageName, fileName, isEval) ==
    [packageName |-> packageName, fileName |-> fileName, isEval |-> isEval]

Skipped(fileName) ==
    \/ fileName = <<>>
    \/ StartsWith(fileName, <<"node:">>)
    \/ StartsWith(fileName, <<"internal", Sep>>)
    \/ isInternalFile(fileName)

RECURSIVE WalkStackOwnFrame(_, _, _, _)
WalkStackOwnFrame(p, stack, i, evalDetectedInStack) ==
    IF i > Len(stack) THEN Parsed(p, Null, FALSE)
    ELSE IF Skipped(stack[i].fileName)
    THEN WalkStackOwnFrame(p, stack, i + 1, evalDetectedInStack)
    ELSE LET extracted == extractPackageName(p.packageCache, stack[i].fileName)
         IN  Parsed([p EXCEPT !.packageCache = extracted.cache],
                    CallerInfo(extracted.name, stack[i].fileName,
                               detectEvalContext(stack[i])),
                    FALSE)

\* The loop of getCallingPackageJS from frame i (counted from 1).
RECURSIVE WalkStack(_, _, _, _)
WalkStack(p, stack, i, evalDetectedInStack) ==
    IF i > Len(stack) THEN Parsed(p, Null, FALSE)
    ELSE IF Skipped(stack[i].fileName) THEN WalkStack(p, stack, i + 1, evalDetectedInStack)
    ELSE LET extracted == extractPackageName(p.packageCache, stack[i].fileName)
         IN  Parsed([p EXCEPT !.packageCache = extracted.cache],
                    CallerInfo(extracted.name, stack[i].fileName,
                               detectEvalContext(stack[i]) \/ evalDetectedInStack),
                    FALSE)

\* getCallingPackageJS.  frames are the frames above the function, nearest
\* first.  The module is in strict mode: an assignment to the property the
\* load made non-writable raises, in the try block and again in the finally
\* block, before the limit is put back.
getCallingPackageJS(p, frames, skipFrames) ==
    IF ~p.hookWritable
    THEN Parsed([p EXCEPT !.stackTraceLimit = StackDepth], Undefined, TRUE)
    ELSE LET stack == SubSeq(frames, 1, IF Len(frames) < StackDepth THEN Len(frames)
                                        ELSE StackDepth)
         IN  IF stack = <<>> THEN Parsed(p, Null, FALSE)
             ELSE WalkStack(p, stack, skipFrames + 1, hasEvalInStack(stack))

ApplyParser(p) ==
    /\ prepareStackTrace' = p.prepareStackTrace
    /\ hookWritable' = p.hookWritable
    /\ stackTraceLimit' = p.stackTraceLimit
    /\ packageCache' = p.packageCache

ParserCall(op, arg, value, threw) ==
    Call(op, Null, "", arg,
         IF threw THEN Throws(TypeError, env) ELSE Returns(value, env, FALSE))

FinishParser(op, arg, parsed) ==
    /\ ApplyParser(parsed.state)
    /\ last' = ParserCall(op, arg, parsed.returned, parsed.threw)
    /\ UNCHANGED <<env, proxyVars, handle, bridgeVars, parserLoaded, tamperingDetected>>

\* The module's top level: tamperingDetected tells that the hook was set
\* before the load; the hook is made non-writable when it was not.
loadStackParser(p) ==
    LET detected == p.prepareStackTrace # "undefined"
    IN  [state |-> [p EXCEPT !.hookWritable = p.hookWritable /\ detected],
         tamperingDetected |-> detected]

\* The module's top level, run by the first require.
LoadStackParser ==
    /\ last = Idle
    /\ ~parserLoaded
    /\ parserLoaded' = TRUE
    /\ tamperingDetected' = loadStackParser(P).tamperingDetected
    /\ hookWritable' = loadStackParser(P).state.hookWritable
    /\ last' = ParserCall("require", [module |-> "stack-parser"], Undefined, FALSE)
    /\ UNCHANGED <<env, proxyVars, handle, bridgeVars, prepareStackTrace,
                   stackTraceLimit, packageCache>>

\* Code outside the module assigns Error.prepareStackTrace (sloppy mode, in
\* a try block: a refused assignment changes nothing).
SetPrepareStackTrace(hook) ==
    /\ last = Idle
    /\ prepareStackTrace' = IF hookWritable THEN hook ELSE prepareStackTrace
    /\ last' = ParserCall("Error.prepareStackTrace=", [hook |-> hook], Undefined, FALSE)
    /\ UNCHANGED <<env, proxyVars, handle, bridgeVars, parserLoaded, hookWritable,
                   stackTraceLimit, tamperingDetected, packageCache>>

GetCallingPackageJS(frames, skipFrames) ==
    /\ last = Idle
    /\ parserLoaded
    /\ LET parsed == getCallingPackageJS(P, frames, skipFrames)
       IN  /\ Cardinality(DOMAIN parsed.state.packageCache) <= MaxCached
           /\ FinishParser("getCallingPackageJS",
                           [frames |-> frames, skipFrames |-> skipFrames], parsed)

ExtractPackageName(filePath) ==
    /\ last = Idle
    /\ parserLoaded
    /\ LET extracted == extractPackageName(packageCache, filePath)
       IN  /\ Cardinality(DOMAIN extracted.cache) <= MaxCached
           /\ FinishParser("extractPackageName", [filePath |-> filePath],
                           Parsed([P EXCEPT !.packageCache = extracted.cache],
                                  [name |-> extracted.name], FALSE))

IsInternalFile(filePath) ==
    /\ last = Idle
    /\ parserLoaded
    /\ FinishParser("isInternalFile", [filePath |-> filePath],
                    Parsed(P, Bool(isInternalFile(filePath)), FALSE))

ClearCache ==
    /\ last = Idle
    /\ parserLoaded
    /\ packageCache # <<>>
    /\ FinishParser("clearCache", [none |-> TRUE],
                    Parsed([P EXCEPT !.packageCache = <<>>], Undefined, FALSE))

WasTamperingDetected ==
    /\ last = Idle
    /\ parserLoaded
    /\ FinishParser("wasTamperingDetected", [none |-> TRUE],
                    Parsed(P, Bool(tamperingDetected), FALSE))

\* File names: the application, packages p, p's nested q and @s/n, the
\* module's own files installed and in two development checkouts, Node.js
\* internals, eval'd code.
InApp(rest) == <<Sep, "app", Sep>> \o rest
InModules(rest) == <<"node_modules", Sep>> \o rest
MainFile == InApp(<<"index.js">>)
PFile == InApp(InModules(<<"p", Sep, "index.js">>))
NestedFile == InApp(InModules(<<"p", Sep>> \o InModules(<<"q", Sep, "index.js">>)))
ScopedFile == InApp(InModules(<<"@", "s", Sep, "n", Sep, "index.js">>))
OwnFile == InApp(InModules(<<"dotnope", Sep, "lib", Sep, "proxy.js">>))
OwnEntry == InApp(InModules(<<"dotnope", Sep, "index.js">>))
DevelopmentFile == DevelopmentRoot \o <<Sep, "lib", Sep, "proxy.js">>
LookalikeFile == <<Sep, "dev", Sep, "other", Sep, "lib", Sep, "proxy.js">>
\* A file of package q installed under the module's own node_modules.
DependencyFile ==
    InApp(InModules(<<"dotnope", Sep>> \o InModules(<<"q", Sep, "lib", Sep, "proxy.js">>)))
UnnormalizedFile == InApp(<<".", Sep>> \o InModules(<<"p", Sep, Sep, "index.js">>))
NodeFile == <<"node:", "fs">>
InternalFile == <<"internal", Sep, "timers.js">>
EvalFile == <<"[eval]">>

Frames ==
    {Frame(MainFile, <<"main">>, FALSE, FALSE),
     Frame(PFile, <<>>, FALSE, FALSE),
     Frame(NestedFile, <<"read">>, TRUE, FALSE),
     Frame(ScopedFile, <<"new ", "Function">>, FALSE, FALSE),
     Frame(PFile, <<"read">>, FALSE, TRUE),
     Frame(OwnFile, <<"get">>, FALSE, FALSE),
     Frame(NodeFile, <<"readFileSync">>, FALSE, FALSE),
     Frame(InternalFile, <<"listOnTimeout">>, FALSE, FALSE),
     Frame(<<>>, <<"f">>, FALSE, FALSE),
     Frame(EvalFile, <<>>, FALSE, FALSE)}
FilePaths ==
    {MainFile, PFile, NestedFile, ScopedFile, OwnFile, OwnEntry, DevelopmentFile,
     LookalikeFile, UnnormalizedFile, EvalFile, DependencyFile}
\* The paths extractPackageName is called with from outside the module.
PackagePaths == {MainFile, PFile, NestedFile, ScopedFile, UnnormalizedFile}
Stacks == UNION {[1..n -> Frames] : n \in 0..MaxFrames}
\* skipFrames: 0, the default, and 1, which skips part of or all of a stack.
SkipCounts == 0..1

ResolverNext ==
    \/ LoadStackParser
    \/ \E hook \in {"undefined", "user"} : SetPrepareStackTrace(hook)
    \/ \E frames \in Stacks, skipFrames \in SkipCounts :
           GetCallingPackageJS(frames, skipFrames)
    \/ \E filePath \in PackagePaths : ExtractPackageName(filePath)
    \/ \E filePath \in FilePaths : IsInternalFile(filePath)
    \/ ClearCache
    \/ WasTamperingDetected
    \/ Return

ResolverSpec == Init /\ [][ResolverNext]_vars

(***************************************************************************)
(* bin/dotnope-run.js: the launcher.  args is process.argv.slice(2); host  *)
(* tells the platform, whether the preload library is found and whether a  *)
(* package.json is found above the working directory.                      *)
(***************************************************************************)
Host(platform, preloadFound, packageJsonFound) ==
    [platform |-> platform, preloadFound |-> preloadFound,
     packageJsonFound |-> packageJsonFound]
\* What a run of the launcher does: it prints the help, the check or the
\* status, or reports an error, and exits with code; or it spawns command
\* with commandArgs.  logFile is <<>> for null.
Launch(does, code, command, commandArgs, verbose, logFile) ==
    [does |-> does, code |-> code, command |-> command, commandArgs |-> commandArgs,
     verbose |-> verbose, logFile |-> logFile]
Exit(does, code) == Launch(does, code, "", <<>>, FALSE, <<>>)
ExecPath == "process.execPath"
IsScript(arg) == arg \in {"app.js", "app.mjs", "app.cjs"}
Flags(verbose, logFile, filteredArgs) ==
    [verbose |-> verbose, logFile |-> logFile, filteredArgs |-> filteredArgs]

\* The loop that parses the flags, from args[i] (counted from 1).
RECURSIVE ParseFlags(_, _, _)
ParseFlags(args, i, flags) ==
    IF i > Len(args) THEN flags
    ELSE IF args[i] \in {"--verbose", "-v"}
    THEN ParseFlags(args, i + 1, [flags EXCEPT !.verbose = TRUE])
    ELSE IF args[i] = "--log" /\ i + 1 <= Len(args)
    THEN ParseFlags(args, i + 2, [flags EXCEPT !.logFile = <<args[i + 1]>>])
    ELSE IF args[i] = "--"
    THEN [flags EXCEPT !.filteredArgs = @ \o SubSeq(args, i + 1, Len(args))]
    ELSE ParseFlags(args, i + 1, [flags EXCEPT !.filteredArgs = Append(@, args[i])])

HasOption(args, options) == \E i \in 1..Len(args) : args[i] \in options

dotnopeRun(args, host) ==
    IF args = <<>> \/ HasOption(args, {"--help", "-h"}) THEN Exit("help", 0)
    ELSE IF HasOption(args, {"--check"})
    THEN Exit("check", IF host.preloadFound THEN 0 ELSE 1)
    ELSE IF HasOption(args, {"--status"}) THEN Exit("status", 0)
    ELSE IF host.platform # "linux" THEN Exit("error", 1)
    ELSE LET flags == ParseFlags(args, 1, Flags(FALSE, <<>>, <<>>))
             filteredArgs == flags.filteredArgs
         IN  IF filteredArgs = <<>> THEN Exit("error", 1)
             ELSE IF ~host.packageJsonFound THEN Exit("error", 1)
             ELSE IF ~host.preloadFound THEN Exit("error", 1)
             ELSE IF IsScript(filteredArgs[1])
             THEN Launch("spawn", 0, ExecPath, filteredArgs, flags.verbose, flags.logFile)
             ELSE Launch("spawn", 0, filteredArgs[1], Tail(filteredArgs),
                         flags.verbose, flags.logFile)

DotnopeRun(args, host) ==
    /\ last' = Call("dotnope-run", Null, "", [args |-> args, host |-> host],
                    Returns(dotnopeRun(args, host), env, FALSE))
    /\ UNCHANGED <<env, proxyVars, handle, bridgeVars, parserVars>>

Arguments == {"--help", "-h", "--check", "--status", "--verbose", "-v", "--log", "--",
          "node", "app.js"}
CommandLines == UNION {[1..n -> Arguments] : n \in 0..MaxArgs}
Hosts == {Host(platform, preloadFound, packageJsonFound) :
              platform \in {"linux", "darwin"}, preloadFound \in BOOLEAN,
              packageJsonFound \in BOOLEAN}

LauncherNext ==
    \/ last = Idle /\ \E args \in CommandLines, host \in Hosts : DotnopeRun(args, host)
    \/ Return

LauncherSpec == Init /\ [][LauncherNext]_vars

(***************************************************************************)
(* Vocabulary of the claims.  In a state where a call has finished, last   *)
(* holds the call and its outcome, and the module state is the one the     *)
(* call ran in.                                                            *)
(***************************************************************************)
Enforcing == IsProxy(processEnv) /\ isEnabled /\ checkAccessFn # Null
ReadOps == {"get", "has", "getOwnPropertyDescriptor"}
WriteOps == {"set", "defineProperty"}
Mediated(ops) == Enforcing /\ last.op \in ops /\ IsString(last.prop)
ByPackage == last.caller # Null /\ last.caller.packageName \in Packages
ByMain == last.caller # Null /\ last.caller.packageName = MainName
ByUnknown == last.caller = Null
\* The option in force: the __options__ entry, or the default without one.
Opt(name) ==
    IF checkAccessFn.options = Null THEN DefaultOptions[name] ELSE checkAccessFn.options[name]
\* A set of the caller's policy entry; a package without entry has empty sets.
SetOf(f) ==
    IF last.caller.packageName \in DOMAIN checkAccessFn.packages
    THEN checkAccessFn.packages[last.caller.packageName][f] ELSE {}
Names(v, fields) == \E f \in fields : v \in SetOf(f) \/ Wildcard \in SetOf(f)
AllSets == {"allowed", "canWrite", "canDelete"}
Star == \E f \in AllSets : Wildcard \in SetOf(f)
Union == SetOf("allowed") \cup SetOf("canWrite") \cup SetOf("canDelete")
\* The caller is flagged isEval and allowEval is false.
EvalDenied == last.caller # Null /\ last.caller.isEval /\ ~Opt("allowEval")
\* The property read the get trap forwards without a check.
InspectRead == last.op = "get" /\ last.prop = "inspect"
Raised(code, operation) ==
    /\ last.error = Failure(code, last.caller.packageName, last.prop, operation)
    /\ last.value = Undefined
Allowed == last.error = NoError
\* The outcome of the operation on the store is the one of the plain object.
Underlying ==
    /\ Allowed
    /\ last.op \in {"get", "getOwnPropertyDescriptor"} => last.value = ReadProp(env, last.prop)
    /\ last.op = "has" => last.value = HasProp(env, last.prop)
    /\ last.op \in WriteOps => env[last.prop] = last.arg
    /\ last.op = "deleteProperty" => env[last.prop] = Undefined
    /\ last.op = "ownKeys" => last.keys = Keys(env)

(***************************************************************************)
(* C1 (as stated): while enforcement is enabled, every read of a string    *)
(* name v by a package caller X (property read, membership test,           *)
(* descriptor query) for which v is in none of X's sets and none holds *   *)
(* raises ERR_DOTNOPE_UNAUTHORIZED carrying X, v and read, and returns no  *)
(* value.  The statement is taken for the callers that are not flagged     *)
(* isEval, where it is most favourable.                                    *)
(***************************************************************************)
C1_AsStated ==
    (Mediated(ReadOps) /\ ByPackage /\ ~last.caller.isEval /\ ~Names(last.prop, AllSets))
        => Raised("ERR_DOTNOPE_UNAUTHORIZED", "read")

(***************************************************************************)
(* C1 (amended): while enforcement is enabled, a read of a string name v   *)
(* by a package caller X, other than a property read of inspect, for which *)
(* v is in none of X's sets and none holds *, returns no value and raises  *)
(* ERR_DOTNOPE_UNAUTHORIZED carrying X, v and read, or                     *)
(* ERR_DOTNOPE_EVAL_CONTEXT when X is flagged isEval and allowEval is      *)
(* false; a property read of inspect is forwarded to the store unchecked.  *)
(***************************************************************************)
C1_ReadDenied ==
    /\ (Mediated(ReadOps) /\ ByPackage /\ ~InspectRead /\ ~Names(last.prop, AllSets))
        => IF EvalDenied THEN Raised("ERR_DOTNOPE_EVAL_CONTEXT", "read")
           ELSE Raised("ERR_DOTNOPE_UNAUTHORIZED", "read")
    /\ (Mediated(ReadOps) /\ InspectRead) => (Underlying /\ ~last.checked)

\* Package q, which has no policy entry, is refused a read of A.
C1_Witness ==
    /\ Mediated(ReadOps) /\ ByPackage
    /\ last.caller.packageName = "q" /\ last.prop = "A"
    /\ last.error.code = "ERR_DOTNOPE_UNAUTHORIZED"

(***************************************************************************)
(* C2 (as stated): a write of v by a package caller X is allowed iff v or  *)
(* * is in canWrite(X), a delete iff v or * is in canDelete(X); a denied   *)
(* write raises ERR_DOTNOPE_UNAUTHORIZED with operation write, a denied    *)
(* delete with operation delete; an allowed write is in the store.  The    *)
(* statement is taken for the callers that are not flagged isEval, where   *)
(* it is most favourable.                                                  *)
(***************************************************************************)
C2_AsStated ==
    /\ (Mediated(WriteOps) /\ ByPackage /\ ~last.caller.isEval)
        => /\ Allowed <=> Names(last.prop, {"canWrite"})
           /\ ~Allowed => Raised("ERR_DOTNOPE_UNAUTHORIZED", "write")
           /\ Allowed => env[last.prop] = last.arg
    /\ (Mediated({"deleteProperty"}) /\ ByPackage /\ ~last.caller.isEval)
        => /\ Allowed <=> Names(last.prop, {"canDelete"})
           /\ ~Allowed => Raised("ERR_DOTNOPE_UNAUTHORIZED", "delete")

(***************************************************************************)
(* C2 (amended): while enforcement is enabled with protectWrites true, a   *)
(* write of v by a package caller X that is not flagged isEval under       *)
(* allowEval=false is allowed iff v or * is in canWrite(X), and with       *)
(* protectDeletes true a delete iff v or * is in canDelete(X); v or * in   *)
(* allowed(X) alone permits neither.  The denied write raises              *)
(* ERR_DOTNOPE_UNAUTHORIZED with operation write, the denied delete with   *)
(* operation delete; the allowed write is in the store, where a read that  *)
(* main is allowed returns it.                                             *)
(***************************************************************************)
C2_WriteDelete ==
    /\ (Mediated(WriteOps) /\ ByPackage /\ proxyOptions.protectWrites /\ ~EvalDenied)
        => /\ Allowed <=> Names(last.prop, {"canWrite"})
           /\ ~Allowed => Raised("ERR_DOTNOPE_UNAUTHORIZED", "write")
           /\ Allowed => env[last.prop] = last.arg
    /\ (Mediated({"deleteProperty"}) /\ ByPackage /\ proxyOptions.protectDeletes /\ ~EvalDenied)
        => /\ Allowed <=> Names(last.prop, {"canDelete"})
           /\ ~Allowed => Raised("ERR_DOTNOPE_UNAUTHORIZED", "delete")
           /\ Allowed => env[last.prop] = Undefined
    /\ (Mediated({"get"}) /\ ByMain /\ Allowed) => last.value = env[last.prop]

\* Package p, whose allowed set holds *, is refused a delete.
C2_Witness ==
    /\ Mediated({"deleteProperty"}) /\ ByPackage /\ proxyOptions.protectDeletes
    /\ Wildcard \in SetOf("allowed")
    /\ last.error.code = "ERR_DOTNOPE_UNAUTHORIZED" /\ last.error.operation = "delete"

(***************************************************************************)
(* C3: with treatMainAsUnrestricted true, every operation of a caller of   *)
(* identity main (read, membership, descriptor query, write, delete,       *)
(* enumerate) on every variable is allowed and has the outcome of the      *)
(* plain store, whatever the package policies and the other options;       *)
(* enumeration returns the full key set.                                   *)
(***************************************************************************)
C3_MainUnrestricted ==
    (IsProxy(processEnv) /\ checkAccessFn # Null /\ ByMain
        /\ Opt("treatMainAsUnrestricted")
        /\ last.op \in ReadOps \cup WriteOps \cup {"deleteProperty", "ownKeys"})
        => Underlying

\* main enumerates two keys while package p would see none and every
\* protection is on.
C3_Witness ==
    /\ Enforcing /\ ByMain /\ last.op = "ownKeys" /\ Opt("treatMainAsUnrestricted")
    /\ proxyOptions.protectEnumeration /\ Opt("failClosed") /\ last.caller.isEval
    /\ "p" \notin DOMAIN checkAccessFn.packages
    /\ Cardinality(last.keys) = 2

(***************************************************************************)
(* C4: a write, delete or property definition through the mediator that    *)
(* is denied leaves the store with the keys and values it had before.      *)
(***************************************************************************)
DeniedMutation(call) ==
    /\ call.op \in WriteOps \cup {"deleteProperty"}
    /\ call.error # NoError
C4_DenialLeavesStore == [][DeniedMutation(last') => env' = env]_vars

\* A write to a key the store does not hold was denied.
C4_Witness ==
    /\ DeniedMutation(last) /\ last.op = "set"
    /\ env[last.prop] = Undefined /\ last.arg = "x"

(***************************************************************************)
(* C5 (as stated): with enforcement enabled and protectEnumeration true,   *)
(* key enumeration by a package caller X returns exactly the real keys in  *)
(* allowed(X), canWrite(X) or canDelete(X), or all real keys when one of   *)
(* the sets holds *; never a key outside the real key set; the empty list  *)
(* for a package without policy entry.                                     *)
(***************************************************************************)
Enumerated == Enforcing /\ last.op = "ownKeys" /\ proxyOptions.protectEnumeration
NoEntry == last.caller.packageName \notin DOMAIN checkAccessFn.packages
ExactKeys ==
    /\ Allowed
    /\ last.keys = IF Star THEN Keys(env) ELSE {k \in Keys(env) : k \in Union}
    /\ last.keys \subseteq Keys(env)
    /\ NoEntry => last.keys = {}
C5_AsStated == (Enumerated /\ ByPackage) => ExactKeys

(***************************************************************************)
(* C5 (amended): with enforcement enabled and protectEnumeration true,     *)
(* key enumeration by a package caller X that is not flagged isEval under  *)
(* allowEval=false returns exactly the real keys in allowed(X), canWrite(X)*)
(* or canDelete(X), or all real keys when one of the sets holds *; never a *)
(* key outside the real key set; the empty list for a package without      *)
(* policy entry.                                                           *)
(***************************************************************************)
C5_Enumeration == (Enumerated /\ ByPackage /\ ~EvalDenied) => ExactKeys

\* Package p, allowed A, enumerates a store that holds A and inspect.
C5_Witness ==
    /\ Enumerated /\ ByPackage /\ ~EvalDenied
    /\ SetOf("allowed") = {"A"} /\ Keys(env) = {"A", "inspect"}
    /\ last.keys = {"A"}

(***************************************************************************)
(* C6 (as stated): for every key set K and package caller X the            *)
(* enumeration result is a subset of K, and it is equal to K if and only   *)
(* if * is in one of X's sets.  The statement is taken with enforcement    *)
(* enabled, protectEnumeration true and for the callers that are not       *)
(* flagged isEval, where it is most favourable.                            *)
(***************************************************************************)
C6_AsStated ==
    (Enumerated /\ ByPackage /\ ~last.caller.isEval)
        => /\ last.keys \subseteq Keys(env)
           /\ last.keys = Keys(env) <=> Star

(***************************************************************************)
(* C6 (amended): with enforcement enabled and protectEnumeration true, for *)
(* every key set K and package caller X that is not flagged isEval under   *)
(* allowEval=false, the enumeration result is a subset of K, and it is     *)
(* equal to K if and only if * is in one of X's sets or every key of K is  *)
(* in one of them.                                                         *)
(***************************************************************************)
C6_SubsetOfKeys ==
    (Enumerated /\ ByPackage /\ ~EvalDenied)
        => /\ last.keys \subseteq Keys(env)
           /\ last.keys = Keys(env) <=> (Star \/ Keys(env) \subseteq Union)

\* Package p, allowed A and no *, enumerates a store whose only key is A and
\* gets the whole key set.
C6_Witness ==
    /\ Enumerated /\ ByPackage /\ ~EvalDenied
    /\ ~Star /\ Keys(env) = {"A"} /\ last.keys = Keys(env)

(***************************************************************************)
(* C7 (as stated): with enforcement enabled, a read by a caller whose      *)
(* identity is unknown is denied with ERR_DOTNOPE_UNKNOWN_CALLER when      *)
(* failClosed is true, the value in force without __options__ entry; it is *)
(* allowed if and only if failClosed is false.                             *)
(***************************************************************************)
UnknownCallerRule ==
    /\ Opt("failClosed") => (last.error.code = "ERR_DOTNOPE_UNKNOWN_CALLER"
                                /\ last.value = Undefined)
    /\ Allowed <=> ~Opt("failClosed")
    /\ checkAccessFn.options = Null => ~Allowed
C7_AsStated == (Mediated(ReadOps) /\ ByUnknown) => UnknownCallerRule

(***************************************************************************)
(* C7 (amended): with enforcement enabled, a read by a caller whose        *)
(* identity is unknown, other than a property read of inspect, is denied   *)
(* with ERR_DOTNOPE_UNKNOWN_CALLER when failClosed is true, the value in   *)
(* force without __options__ entry; it is allowed if and only if           *)
(* failClosed is false.                                                    *)
(***************************************************************************)
C7_UnknownCaller == (Mediated(ReadOps) /\ ByUnknown /\ ~InspectRead) => UnknownCallerRule

\* Without __options__ entry, a membership test by an unknown caller is denied.
C7_Witness ==
    /\ Mediated({"has"}) /\ ByUnknown /\ checkAccessFn.options = Null
    /\ last.error.code = "ERR_DOTNOPE_UNKNOWN_CALLER"

(***************************************************************************)
(* C8 (as stated): when allowEval is false, every mediated read, write or  *)
(* delete whose caller resolution is flagged isEval is denied with         *)
(* ERR_DOTNOPE_EVAL_CONTEXT, whatever the identity and the policy.  The    *)
(* statement is taken for the callers resolved to a package.               *)
(***************************************************************************)
EvalOps == ReadOps \cup WriteOps \cup {"deleteProperty"}
EvalRule == last.error.code = "ERR_DOTNOPE_EVAL_CONTEXT" /\ last.value = Undefined
C8_AsStated == (Mediated(EvalOps) /\ ByPackage /\ EvalDenied) => EvalRule

(***************************************************************************)
(* C8 (amended): when allowEval is false, every mediated read, write or    *)
(* delete whose caller resolution is flagged isEval is denied with         *)
(* ERR_DOTNOPE_EVAL_CONTEXT, whatever the package's policy, except for a   *)
(* caller of identity main under treatMainAsUnrestricted=true, a write     *)
(* under protectWrites=false, a delete under protectDeletes=false and a    *)
(* property read of inspect.                                               *)
(***************************************************************************)
C8_EvalDenied ==
    (Mediated(EvalOps) /\ EvalDenied
        /\ ~(ByMain /\ Opt("treatMainAsUnrestricted"))
        /\ (last.op \in WriteOps => proxyOptions.protectWrites)
        /\ (last.op = "deleteProperty" => proxyOptions.protectDeletes)
        /\ ~InspectRead)
        => EvalRule

\* Package p, whose allowed set holds *, reads A from evaluated code.
C8_Witness ==
    /\ Mediated({"get"}) /\ ByPackage /\ EvalDenied
    /\ Wildcard \in SetOf("allowed") /\ last.prop = "A"
    /\ last.error.code = "ERR_DOTNOPE_EVAL_CONTEXT"

(***************************************************************************)
(* C9: with enforcement enabled and protectWrites false, a write by any    *)
(* caller (a package without write permission, an unknown caller under     *)
(* failClosed=true, an eval-flagged caller under allowEval=false) is       *)
(* allowed and applied to the store, before any rule about the caller is   *)
(* looked at; likewise a delete with protectDeletes false, and an          *)
(* enumeration with protectEnumeration false, which returns every key.     *)
(***************************************************************************)
C9_Unprotected ==
    /\ (Enforcing /\ last.op \in WriteOps /\ ~proxyOptions.protectWrites)
        => (Underlying /\ ~last.checked)
    /\ (Enforcing /\ last.op = "deleteProperty" /\ ~proxyOptions.protectDeletes)
        => (Underlying /\ ~last.checked)
    /\ (Enforcing /\ last.op = "ownKeys" /\ ~proxyOptions.protectEnumeration)
        => (Underlying /\ ~last.checked)

\* An unknown caller writes a new key under failClosed=true, protectWrites=false.
C9_Witness ==
    /\ Enforcing /\ last.op = "set" /\ ByUnknown
    /\ ~proxyOptions.protectWrites /\ Opt("failClosed")
    /\ Allowed /\ Keys(env) = {last.prop}

(***************************************************************************)
(* C10: at most one mediator is installed at any time: the object          *)
(* process.env names is the original store or the one installed Proxy, and *)
(* an install attempted while an installation is active fails with         *)
(* ERR_DOTNOPE_ALREADY_INSTALLED and leaves the published wrapper, the     *)
(* check function, the protection options, the original-store reference    *)
(* and the enabled flag as they were.                                      *)
(***************************************************************************)
C10_SecondInstallRefused ==
    [][/\ IsProxy(processEnv') => processEnv' = proxyEnv'
       /\ (proxyEnv # Null /\ last'.op = "enableStrictEnv")
            => /\ last'.error.code = "ERR_DOTNOPE_ALREADY_INSTALLED"
               /\ UNCHANGED <<processEnv, proxyEnv, checkAccessFn, proxyOptions,
                              originalEnv, isEnabled>>]_vars

\* An install was refused while a mediator with a package entry was active.
C10_Witness ==
    /\ last.op = "enableStrictEnv"
    /\ last.error.code = "ERR_DOTNOPE_ALREADY_INSTALLED"
    /\ proxyEnv # Null /\ isEnabled /\ "p" \in DOMAIN checkAccessFn.packages

(***************************************************************************)
(* C11: a teardown with a token that is not the handle's (wrong, empty,    *)
(* null or absent, or the token of an earlier installation) raises         *)
(* ERR_DOTNOPE_INVALID_TOKEN and changes nothing: store, mediator, enabled *)
(* flag and handle are as before, so enforcement continues; and in every   *)
(* state with a handle, hence after any number of failed attempts, the     *)
(* teardown with the handle's own token succeeds and puts the original     *)
(* store back.                                                             *)
(***************************************************************************)
Teardown(call) == call.op = "disable"
C11_InvalidToken ==
    [][Teardown(last') =>
        IF last'.arg = handle.token
        THEN /\ last'.error = NoError
             /\ processEnv' = StoreRef /\ ~isEnabled' /\ proxyEnv' = Null
        ELSE /\ last'.error.code = "ERR_DOTNOPE_INVALID_TOKEN"
             /\ UNCHANGED <<env, proxyVars, handle>>
             /\ Enforcing']_vars

\* The empty token was refused at the second installation, whose mediator
\* still enforces.
C11_Witness ==
    /\ Teardown(last) /\ last.arg = EmptyToken
    /\ last.error.code = "ERR_DOTNOPE_INVALID_TOKEN"
    /\ Enforcing /\ handle # Null /\ handle.token = Token(2)

(***************************************************************************)
(* C12: disableStrictEnv() raises ERR_DOTNOPE_DEPRECATED in every state,   *)
(* with or without a mediator installed, and changes nothing: the store,   *)
(* the installation, its enabled flag and the handle with its token are as *)
(* before, so that the handle's token is still the one that tears the      *)
(* mediator down.                                                          *)
(***************************************************************************)
Legacy(call) == call.op = "disableStrictEnv"
C12_Deprecated ==
    [][Legacy(last') =>
        /\ last'.error.code = "ERR_DOTNOPE_DEPRECATED"
        /\ UNCHANGED <<env, proxyVars, handle>>
        /\ handle # Null =>
            (Enforcing' /\ handle'.token = Token(proxyInstalledAt'))]_vars

\* The legacy call was made while the second installation was enforcing.
C12_Witness ==
    /\ Legacy(last) /\ last.error.code = "ERR_DOTNOPE_DEPRECATED"
    /\ Enforcing /\ handle # Null /\ handle.token = Token(2)

(***************************************************************************)
(* C13: from a successful teardown until the next install, process.env is  *)
(* the original store object, the enabled flag is false, and no access of  *)
(* any kind by any caller reaches the check function or the key filter,    *)
(* where callers are identified and decisions taken: an access through     *)
(* process.env has the outcome of the plain store, and the traps of a      *)
(* Proxy kept from the installation forward without a check.               *)
(***************************************************************************)
AccessOps == ReadOps \cup WriteOps \cup {"deleteProperty", "ownKeys"}
TornDown == proxyEnv = Null /\ proxyInstalledAt > 0
KeptProxyUnchecked ==
    \A c \in Callers :
        /\ ~TrapOwnKeys(c, TRUE).checked
        /\ \A prop \in Props :
            /\ ~TrapGet(c, prop, TRUE).checked
            /\ ~TrapHas(c, prop, TRUE).checked
            /\ ~TrapGetOwnPropertyDescriptor(c, prop, TRUE).checked
        /\ \A prop \in EnvVars :
            /\ ~TrapDeleteProperty(c, prop, TRUE).checked
            /\ \A v \in Values :
                /\ ~TrapSet(c, prop, v, TRUE).checked
                /\ ~TrapDefineProperty(c, prop, v, TRUE).checked
C13_NoDecisionAfterTeardown ==
    TornDown =>
        /\ processEnv = StoreRef /\ processEnv = originalEnv
        /\ ~isEnabled /\ ~isStrictModeEnabled
        /\ checkAccessFn = Null /\ filterKeysFn = Null
        /\ last.op \in AccessOps => (~last.checked /\ Underlying)
        /\ KeptProxyUnchecked

\* After the teardown a caller without identity deletes a key, which with the
\* mediator installed fails closed.
C13_Witness ==
    /\ TornDown /\ processEnv = StoreRef
    /\ last.op = "deleteProperty" /\ ByUnknown /\ last.error = NoError
    /\ Keys(env) = EnvVars \ {last.prop}

(***************************************************************************)
(* C14: an install attempted while no installation is active succeeds,     *)
(* the first time and after every teardown: it publishes a new Proxy over  *)
(* the original store, enabled, with the check function and key filter of  *)
(* the configuration given to this install; and the published wrapper      *)
(* enforces the check function installed last: a membership test or        *)
(* descriptor query of a string name has the verdict of that function.     *)
(***************************************************************************)
Install(call) == call.op = "enableStrictEnv"
C14_InstallAgain ==
    [][/\ (Install(last') /\ ~IsProxy(processEnv)) =>
            /\ last'.error = NoError
            /\ proxyInstalledAt' = proxyInstalledAt + 1
            /\ processEnv' = ProxyRef(proxyInstalledAt') /\ proxyEnv' = processEnv'
            /\ originalEnv' = StoreRef /\ isEnabled'
            /\ checkAccessFn' = last'.arg /\ filterKeysFn' = last'.arg
            /\ handle'.token = Token(proxyInstalledAt')
       /\ (Enforcing' /\ last'.op \in {"has", "getOwnPropertyDescriptor"} /\ IsString(last'.prop)) =>
            \E u \in BOOLEAN :
                last'.error = checkAccess(checkAccessFn', last'.caller, last'.prop, "read", u)
      ]_vars

\* The wrapper of the second installation refuses package p a membership test.
C14_Witness ==
    /\ Enforcing /\ proxyInstalledAt = 2 /\ processEnv = ProxyRef(2)
    /\ last.op = "has" /\ ByPackage /\ last.prop = "A"
    /\ last.error.code = "ERR_DOTNOPE_UNAUTHORIZED"

(***************************************************************************)
(* Vocabulary of the claims about the generated policy.  last.arg is the   *)
(* whitelist given, last.value the string returned.                        *)
(***************************************************************************)
Generated == last.op \in {"generatePolicy", "generatePolicyFromPackageJson"}
Range(seq) == {seq[i] : i \in 1..Len(seq)}
\* The sets of a package at the runtime level (section 4.8): an array is
\* the allowed set.
SetsOf(value) ==
    IF IsArray(value)
    THEN [allowed |-> Range(value.array), canWrite |-> {}, canDelete |-> {}]
    ELSE [f \in Fields |-> Range(Property(value, f))]
PackageEntries(whitelist) ==
    {i \in 1..Len(whitelist) : whitelist[i].name # OptionsName}
NamedBy(whitelist) ==
    UNION {Granted(SetsOf(whitelist[i].value)) : i \in PackageEntries(whitelist)}

(***************************************************************************)
(* C15 (as stated): for every configuration and variable V, if some        *)
(* package may read V under the runtime policy (V, or *, is in its         *)
(* allowed, canWrite or canDelete set), V is in the native allow-set the   *)
(* generated DOTNOPE_POLICY denotes.                                       *)
(***************************************************************************)
C15_AsStated ==
    Generated =>
        \A V \in PolicyVars :
            (\E i \in PackageEntries(last.arg) : mayRead(SetsOf(last.arg[i].value), V))
                => InAllowSet(last.value, V)

\* What the generator does guarantee: the names of the allowed and canWrite
\* sets are in the allow-set; generatePolicy itself reads them from the
\* entries that are records.
Read(op, value) == op = "generatePolicyFromPackageJson" \/ ~IsArray(value)
C15_ReadAndWriteSets ==
    Generated =>
        \A V \in PolicyVars :
            (\E i \in PackageEntries(last.arg) :
                LET sets == SetsOf(last.arg[i].value)
                IN  /\ Read(last.op, last.arg[i].value)
                    /\ {V, Wildcard} \cap (sets.allowed \cup sets.canWrite) # {})
                => InAllowSet(last.value, V)

(***************************************************************************)
(* C16 (as stated): the generated DOTNOPE_POLICY is * whenever a package   *)
(* has * in its allowed, canWrite or canDelete set; otherwise it is the    *)
(* comma-separated list of the variables the packages name, the empty      *)
(* string when they name none; __options__ contributes nothing.            *)
(***************************************************************************)
C16_AsStated ==
    Generated =>
        last.value = IF Wildcard \in NamedBy(last.arg) THEN StarString
                     ELSE Join(Sort({Chars(n) : n \in NamedBy(last.arg)}))

(***************************************************************************)
(* Rearrangements of a whitelist: the entries permuted, and in every       *)
(* package the names permuted over the places of its arrays, each array    *)
(* keeping its length.  across tells whether names move between the three  *)
(* sets of the package or only between allowed and canWrite.               *)
(***************************************************************************)
Perms(seq) == {[i \in 1..Len(seq) |-> seq[f[i]]] : f \in Permutations(1..Len(seq))}
Recut(value, names, n) ==
    [allowed |-> SubSeq(names, 1, Len(value.allowed)),
     canWrite |-> SubSeq(names, Len(value.allowed) + 1, n),
     canDelete |-> IF n = Len(names) THEN value.canDelete ELSE SubSeq(names, n + 1, Len(names))]
Shuffled(entry, across) ==
    IF entry.name = OptionsName THEN {entry.value}
    ELSE IF IsArray(entry.value) THEN {[array |-> a] : a \in Perms(entry.value.array)}
    ELSE LET value == entry.value
             readable == value.allowed \o value.canWrite
         IN  IF across
             THEN {Recut(value, names, Len(readable)) : names \in Perms(readable \o value.canDelete)}
             ELSE {Recut(value, names, Len(readable)) : names \in Perms(readable)}
Rearranged(whitelist, across) ==
    UNION {{[i \in 1..Len(w) |-> [name |-> w[i].name, value |-> values[i]]] :
                values \in {v \in [1..Len(w) -> UNION {Shuffled(w[i], across) : i \in 1..Len(w)}] :
                               \A i \in 1..Len(w) : v[i] \in Shuffled(w[i], across)}} :
           w \in Perms(whitelist)}
\* A name of a package repeated at the end of its allowed or canWrite array.
Duplicated(whitelist) ==
    {[whitelist EXCEPT ![i].value[f] = Append(@, n)] :
        i \in {j \in PackageEntries(whitelist) : ~IsArray(whitelist[j].value)},
        f \in {"allowed", "canWrite"},
        n \in NamedBy(whitelist)}
Generate(op, whitelist) ==
    IF op = "generatePolicy" THEN generatePolicy(whitelist)
    ELSE generatePolicyFromPackageJson(whitelist)
\* The names of the list ascend strictly: sorted and without duplicates.
Ascending(string) ==
    LET words == Split(string, <<>>)
    IN  \A i \in 1..Len(words) - 1 : Before(words[i], words[i + 1])

(***************************************************************************)
(* C17 (as stated): generatePolicy is order-independent: permuting the     *)
(* package entries, or permuting the variables within or across the sets   *)
(* of a package, yields the identical string; the list is sorted ascending *)
(* and free of duplicates.                                                 *)
(***************************************************************************)
C17_AsStated ==
    Generated =>
        /\ \A w \in Rearranged(last.arg, TRUE) : Generate(last.op, w) = last.value
        /\ last.value # StarString => Ascending(last.value)

\* What the generator does guarantee: the string is the same when the
\* entries are permuted, when the names are permuted within and between the
\* allowed and canWrite sets of a package, and when a name of the allowed or
\* canWrite set of a package is repeated; the list ascends strictly.
C17_ReadAndWriteSets ==
    Generated =>
        /\ \A w \in Rearranged(last.arg, FALSE) : Generate(last.op, w) = last.value
        /\ \A w \in Duplicated(last.arg) :
                (NamedBy(w) = NamedBy(last.arg)
                    /\ \A i \in PackageEntries(w) :
                        LET old == SetsOf(last.arg[i].value)
                            new == SetsOf(w[i].value)
                        IN  new.allowed \cup new.canWrite = old.allowed \cup old.canWrite)
                    => Generate(last.op, w) = last.value
        /\ last.value # StarString => Ascending(last.value)

(***************************************************************************)
(* C20: write and delete permissions imply read.  For every package policy *)
(* and variable v, mayWrite or mayDelete, by name or by wildcard, implies  *)
(* mayRead; and with enforcement enabled, a package caller that the rules  *)
(* before the package rule do not deny, with v or * in its canWrite or     *)
(* canDelete set, is allowed the property read, the membership test and    *)
(* the descriptor query of v, with the result of the store.                *)
(***************************************************************************)
C20_WriteDeleteImplyRead ==
    /\ checkAccessFn # Null =>
        \A name \in Packages, v \in EnvVars :
            LET pol == PolicyOf(LoadConfig(checkAccessFn), name)
            IN  (mayWrite(pol, v) \/ mayDelete(pol, v)) => mayRead(pol, v)
    /\ (Mediated(ReadOps) /\ ByPackage /\ ~EvalDenied
            /\ Names(last.prop, {"canWrite", "canDelete"}))
        => Underlying

\* Package p, whose only grant is canDelete of A, tests the membership of A.
C20_Witness ==
    /\ Mediated({"has"}) /\ ByPackage /\ ~EvalDenied /\ last.prop = "A"
    /\ SetOf("canDelete") = {"A"} /\ SetOf("allowed") = {} /\ SetOf("canWrite") = {}
    /\ last.checked /\ last.value = "true"

(***************************************************************************)
(* Integrity verification (section 4.6)                                    *)
(***************************************************************************)
Verification == last.op = "verifyAddonIntegrity"
ManifestPresent(fs) == fs.manifest # NoManifest
Usable(fs) == fs.manifest \notin {NoManifest, BadManifest}
\* The hash of the addon, computed as the manifest asks.
ComputedHash(fs) ==
    Digest(IF fs.manifest.algorithm = Unset THEN "sha256" ELSE fs.manifest.algorithm,
           fs.addon.content)
HashEqual(fs) == Usable(fs) /\ ComputedHash(fs) = fs.manifest.hash
SizeEqual(fs) == Usable(fs) /\ fs.addon.size = fs.manifest.size
VerifiedOutcome(r) == r.verified /\ r.error = Null
RefusedOutcome(r) == ~r.verified /\ r.error # Null
WarningOnly(r) == ~r.verified /\ r.error = Null /\ r.warning # Null

\* C19 as the specification states it: the outcome is verified exactly when
\* a manifest is present and hash and size are equal, refused exactly when a
\* manifest is present and the hash or the size differs, warning-only
\* exactly when the manifest is absent; with a manifest present the outcome
\* is never warning-only.
C19_AsStated ==
    Verification =>
        /\ VerifiedOutcome(last.value) <=>
               ManifestPresent(last.arg) /\ HashEqual(last.arg) /\ SizeEqual(last.arg)
        /\ WarningOnly(last.value) <=> ~ManifestPresent(last.arg)
        /\ ManifestPresent(last.arg) =>
               VerifiedOutcome(last.value) \/ RefusedOutcome(last.value)

\* What the code does for C19: with a manifest that can be read the outcome
\* is verified when hash and size are equal and refused when one differs;
\* with no manifest, or one that cannot be read, it is warning-only.
C19_UsableManifest ==
    Verification =>
        /\ VerifiedOutcome(last.value) <=> HashEqual(last.arg) /\ SizeEqual(last.arg)
        /\ RefusedOutcome(last.value) <=>
               Usable(last.arg) /\ ~(HashEqual(last.arg) /\ SizeEqual(last.arg))
        /\ WarningOnly(last.value) <=> ~Usable(last.arg)

(***************************************************************************)
(* Refusal of the native helper (sections 4.6 and 7)                       *)
(***************************************************************************)
Refused == integrityError # Null
WouldLoad(fs) ==
    /\ fs.addonExists /\ ~fs.requireThrows /\ ~fs.initializeThrows
    /\ VerifiedOutcome(verifyAddonIntegrity(fs))

\* C18: once integrity verification has refused the native helper, no
\* function of the helper has been or is invoked, the helper is not loaded,
\* isNativeAvailable() returns false, the status reports the integrity
\* error, and caller resolution uses the fallback backend.
C18_RefusedNeverNative ==
    Refused =>
        /\ native = Null /\ ~nativeAvailable /\ nativeInvoked = {}
        /\ getSecurityStatus(B).hasIntegrityError
        /\ getSecurityStatus(B).initializationError = Str(integrityError.message)
        /\ ~getSecurityStatus(B).nativeAvailable
        /\ last.op \in {"isNativeAvailable", "loadNativeAddon"} => last.value = Bool(FALSE)
        /\ last.op \in {"getCallerInfo", "getAsyncContext"} \cup GuardedFunctions =>
               last.value = Null
        /\ last.op = "getCallingPackage" => last.value.backend = "fallback"

\* Refused earlier, and a caller resolved while the files would now load.
C18_Witness ==
    Refused /\ last.op = "getCallingPackage" /\ WouldLoad(last.arg)
        /\ last.value.backend = "fallback"

(***************************************************************************)
(* Determinism of the decision (sections 4.3 and 8)                        *)
(***************************************************************************)
\* The operation a trap asks the decision for.
OperationOf(op) ==
    CASE op \in ReadOps -> "read" [] op \in WriteOps -> "write" [] OTHER -> "delete"
\* A call for which the check function ran.
Decided == Enforcing /\ last.op \in EvalOps /\ last.checked
\* The rules of section 4.3 settle the verdict (they leave it open for
\* identity main when treatMainAsUnrestricted is false).
Settled(caller) ==
    checkAccess(checkAccessFn, caller, last.prop, OperationOf(last.op), TRUE)
        = checkAccess(checkAccessFn, caller, last.prop, OperationOf(last.op), FALSE)
\* What the decision returns for the arguments of the call, taken afresh:
\* no store, no history and no installation time enter it.
Afresh(caller) ==
    LET verdict == decide(IdentityOf(caller), OperationOf(last.op), last.prop,
                          LoadConfig(checkAccessFn), EvalFlag(caller), TRUE)
    IN  IF verdict.allow THEN "none" ELSE ErrorCode(verdict.reason)

Recorded(value) ==
    IF IsArray(value) THEN [allowed |-> value.array, canWrite |-> <<>>, canDelete |-> <<>>]
    ELSE value
AsRecords(whitelist) ==
    [i \in 1..Len(whitelist) |->
        [name |-> whitelist[i].name,
         value |-> IF whitelist[i].name = OptionsName THEN whitelist[i].value
                   ELSE Recorded(whitelist[i].value)]]
\* The runtime permissions of the two shapes are the same.
SamePermissions(whitelist) ==
    \A i \in PackageEntries(whitelist) : \A V \in PolicyVars :
        LET array == SetsOf(whitelist[i].value)
            record == SetsOf(Recorded(whitelist[i].value))
        IN  /\ mayRead(array, V) = mayRead(record, V)
            /\ mayWrite(array, V) = mayWrite(record, V)
            /\ mayDelete(array, V) = mayDelete(record, V)
            /\ visibleKeys(array, PolicyVars) = visibleKeys(record, PolicyVars)

\* C22 as the specification states it: a package entry given as the bare
\* array A and the entry given as the record {allowed: A, canWrite: [],
\* canDelete: []} have the same runtime permissions and give the same
\* DOTNOPE_POLICY string, through generatePolicyFromPackageJson and through
\* generatePolicy.
C22_AsStated ==
    Generated =>
        /\ SamePermissions(last.arg)
        /\ Generate(last.op, AsRecords(last.arg)) = last.value

\* What the code does for C22: the two shapes give the same string when the
\* configuration is read from the package descriptor, and generatePolicy
\* gives for a bare array the string it gives for an entry without names.
Emptied(whitelist) ==
    [i \in 1..Len(whitelist) |->
        [name |-> whitelist[i].name,
         value |-> IF IsArray(whitelist[i].value) THEN [array |-> <<>>]
                   ELSE whitelist[i].value]]
C22_FromPackageJson ==
    Generated =>
        /\ SamePermissions(last.arg)
        /\ last.op = "generatePolicyFromPackageJson" =>
               Generate(last.op, AsRecords(last.arg)) = last.value
        /\ last.op = "generatePolicy" => Generate(last.op, Emptied(last.arg)) = last.value

(***************************************************************************)
(* Disabled enforcement (section 4.4, step 1)                              *)
(***************************************************************************)
\* A mediator is installed and enforcement is disabled on it.
Disabled == IsProxy(processEnv) /\ ~isEnabled
Access == last.op \in AccessOps \cup {"get"}
\* The call went to the store as it would without a mediator.
Forwarded == ~last.checked /\ Underlying

\* C23: while enforcement is disabled on an installed mediator, every read,
\* write, membership test, delete, enumeration, descriptor query and
\* property definition is forwarded to the original store: neither the
\* check function nor the key filter runs, nothing is raised, and the
\* enumeration returns every key.  disable() switches enforcement off and
\* leaves the wrapper, and everything else of the mediator, in place.
C23_DisabledForwards ==
    [][/\ (Disabled' /\ Access') => Forwarded'
       /\ last'.op = "disable" =>
            /\ ~isEnabled'
            /\ UNCHANGED <<env, processEnv, originalEnv, proxyEnv, checkAccessFn,
                           filterKeysFn, proxyOptions, proxyInstalledAt>>]_vars

\* An enumeration by a package without any grant, under a disabled mediator
\* whose key filter would have hidden every key.
C23_Witness ==
    /\ Disabled /\ last.op = "ownKeys" /\ ByPackage /\ ~last.caller.isEval
    /\ checkAccessFn # Null /\ filterKeysFn = checkAccessFn
    /\ proxyOptions.protectEnumeration /\ Union = {}
    /\ Keys(env) # {} /\ last.keys = Keys(env)

(***************************************************************************)
(* Enumeration with protectEnumeration=false (section 4.3, rule 2)         *)
(***************************************************************************)
Enumerations == {"ownKeys", "Object.keys", "Object.entries"}
Unfiltered == Enforcing /\ ~proxyOptions.protectEnumeration

\* C24 as the specification states it: with protectEnumeration=false and
\* enforcement enabled, an enumeration by a package caller yields every
\* key of the store and raises nothing, as own-keys alone and as
\* Object.keys / Object.entries.  The statement is taken for the callers
\* that are not flagged isEval, where it is most favourable.
C24_AsStated ==
    (Unfiltered /\ last.op \in Enumerations /\ ByPackage /\ ~last.caller.isEval) =>
        Allowed /\ last.keys = Keys(env)

\* What the code does for C24: the own-keys step returns every key and
\* raises nothing, and Object.keys and Object.entries return every key
\* unless the package may not read one, where they raise the denial of the
\* read of that key.
C24_OwnKeysUnfiltered ==
    (Unfiltered /\ last.op \in Enumerations /\ ByPackage /\ ~last.caller.isEval) =>
        IF last.op = "ownKeys" \/ \A k \in Keys(env) : Names(k, AllSets)
        THEN Allowed /\ last.keys = Keys(env)
        ELSE /\ Raised("ERR_DOTNOPE_UNAUTHORIZED", "read")
             /\ last.prop \in Keys(env) /\ ~Names(last.prop, AllSets)

(***************************************************************************)
(* Enumeration with protectEnumeration=true (sections 4.3 and 4.4)         *)
(***************************************************************************)
Filtered == Enforcing /\ proxyOptions.protectEnumeration /\ filterKeysFn # Null
\* The keys of the store the caller's sets name, by name or by wildcard.
Visible == {k \in Keys(env) : Names(k, AllSets)}

\* C25: with protectEnumeration=true, an enumeration by a package caller
\* that is not flagged isEval never raises: every key the filtered own-keys
\* step returns passes the read check of the descriptor query and of the
\* property read, so Object.keys and Object.entries complete, and what the
\* package may not read is omitted from the keys.
C25_EnumerationNeverRaises ==
    (Filtered /\ last.op \in Enumerations /\ ByPackage /\ ~last.caller.isEval) =>
        /\ Allowed
        /\ last.keys = Visible
        /\ \A k \in last.keys :
            /\ TrapGetOwnPropertyDescriptor(last.caller, k, TRUE).error = NoError
            /\ TrapGet(last.caller, k, TRUE).error = NoError

\* Object.entries by a package completes with a key of the store omitted.
C25_Witness ==
    /\ Filtered /\ last.op = "Object.entries" /\ ByPackage /\ ~last.caller.isEval
    /\ Allowed /\ last.checked
    /\ last.keys # {} /\ last.keys # Keys(env)

(***************************************************************************)
(* C27.  The package of a file path.                                       *)
(***************************************************************************)
Segments(filePath) == SplitPath(filePath, <<>>)
\* The positions of the segments that are a /node_modules/ segment: a
\* separator before and a separator after.
ModulesSegments(filePath) ==
    {i \in 2..(Len(Segments(filePath)) - 1) : Segments(filePath)[i] = <<"node_modules">>}
InnermostModules(filePath) ==
    CHOOSE i \in ModulesSegments(filePath) : \A j \in ModulesSegments(filePath) : j <= i
PackageOfPath(filePath) ==
    IF ModulesSegments(filePath) = {} THEN <<MainName>>
    ELSE LET segments == Segments(filePath)
             after == InnermostModules(filePath) + 1
         IN  IF Head(segments[after]) = "@"
             THEN segments[after] \o <<Sep>> \o segments[after + 1]
             ELSE segments[after]
Extracted == last.op = "extractPackageName"

\* C27: extractPackageName returns, for a path with a /node_modules/ segment,
\* the first segment after the last such segment, or @scope/name when that
\* segment begins with @, and __main__ for a path without one; a file of a
\* nested node_modules directory resolves to the innermost package.
C27_ExtractPackageName ==
    Extracted => last.value.name = PackageOfPath(last.arg.filePath)
C27_Witness ==
    /\ Extracted
    /\ last.arg.filePath = NestedFile
    /\ last.value.name = <<"q">>

(***************************************************************************)
(* C28.  The eval flag of the caller the fallback resolver returns.        *)
(***************************************************************************)
FallbackCalled == last.op = "getCallingPackageJS"
Resolved == FallbackCalled /\ last.error = NoError /\ last.value # Null
NamesEval(functionName) ==
    \E name \in {"eval", "Function", "anonymous"} : Includes(functionName, <<name>>)
Synthetic(fileName) ==
    \/ fileName # <<>> /\ Head(fileName) \in {"eval at", "[eval]"}
    \/ StartsWith(fileName, <<"<", "anonymous", ">">>)
    \/ StartsWith(fileName, <<"evalmachine", ".">>)
EvalHeuristic(frame) ==
    \/ frame.isEval
    \/ frame.evalOrigin
    \/ NamesEval(frame.functionName)
    \/ Synthetic(frame.fileName)
    \/ frame.fileName = <<>> /\ frame.functionName \notin {<<>>, <<"<", "anonymous", ">">>}
EvalFrames(frames) == {i \in 1..Len(frames) : EvalHeuristic(frames[i])}

\* C28: the caller the fallback resolver returns has isEval = true if and
\* only if some frame of the captured stack, skipped frames included,
\* satisfies the eval heuristic.
C28_EvalAnywhereInStack ==
    Resolved => (last.value.isEval <=> EvalFrames(last.arg.frames) # {})
\* The frame returned does not satisfy the heuristic; a frame before
\* skipFrames does.
C28_Witness ==
    /\ Resolved
    /\ last.value.isEval
    /\ last.arg.skipFrames = 1
    /\ EvalFrames(last.arg.frames) = {1}
    /\ last.value.fileName = last.arg.frames[2].fileName

(***************************************************************************)
(* C26.  The frame the fallback resolver answers with.                     *)
(***************************************************************************)
RuntimeInternal(fileName) ==
    fileName # <<>> /\ (Head(fileName) = "node:" \/ StartsWith(fileName, <<"internal", "/">>))
MediatorFiles == {OwnFile, OwnEntry, DevelopmentFile}
Qualifying(frames, skipFrames) ==
    {i \in (skipFrames + 1)..Len(frames) :
        /\ frames[i].fileName # <<>>
        /\ ~RuntimeInternal(frames[i].fileName)
        /\ frames[i].fileName \notin MediatorFiles}
FirstQualifying(frames, skipFrames) ==
    CHOOSE i \in Qualifying(frames, skipFrames) : \A j \in Qualifying(frames, skipFrames) : i <= j
\* The answer of the call in last is the one the claim describes.
AnswersFirstQualifying ==
    LET frames == last.arg.frames
        skipFrames == last.arg.skipFrames
    IN  IF Qualifying(frames, skipFrames) = {} THEN last.value = Null
        ELSE /\ last.value # Null
             /\ last.value.fileName = frames[FirstQualifying(frames, skipFrames)].fileName
             /\ last.value.packageName = PackageOfPath(last.value.fileName)

\* C26: the fallback resolver returns the identity of the first frame at
\* index >= skipFrames whose file name is non-empty, not runtime-internal
\* and not one of the mediator's own files, and returns null if and only if
\* the captured stack is empty or has no such frame.
C26_AsStated ==
    FallbackCalled => last.error = NoError /\ AnswersFirstQualifying
\* What holds: every call that returns answers so.
C26_WhenReturning ==
    FallbackCalled /\ last.error = NoError => AnswersFirstQualifying
\* Every call made while Error.prepareStackTrace is not writable raises.
C26_RaisesWhenFrozen ==
    [][last = Idle /\ FallbackCalled' /\ ~hookWritable => last'.error = TypeError]_vars

(***************************************************************************)
(* C30.  What a call of the fallback resolver leaves in                    *)
(* Error.prepareStackTrace and Error.stackTraceLimit.                      *)
(***************************************************************************)
FallbackStep == last = Idle /\ FallbackCalled'

\* C30: after every call of the fallback resolver, returning or raising,
\* Error.prepareStackTrace and Error.stackTraceLimit hold the values they
\* held immediately before the call.
C30_AsStated ==
    [][FallbackStep =>
          /\ prepareStackTrace' = prepareStackTrace
          /\ stackTraceLimit' = stackTraceLimit]_vars
\* What holds: the hook is as before after every call, and the limit after
\* every call made while the hook is writable.
C30_HookRestored ==
    [][FallbackStep => prepareStackTrace' = prepareStackTrace]_vars
C30_LimitRestoredWhenWritable ==
    [][FallbackStep /\ hookWritable => stackTraceLimit' = stackTraceLimit]_vars

(***************************************************************************)
(* C29.  The async context in getCallingPackage.                           *)
(***************************************************************************)
Resolving == last.op = "getCallingPackage"
NativeWalkEmpty == nativeAvailable /\ last.arg.nativeResult = Null

\* C29: the async context is used only when the native helper is available
\* and its stack walk returned no caller, and never supplies main: a caller
\* the native walk returns is returned unchanged, and an async context equal
\* to main is discarded for the JavaScript backend.
C29_AsyncContextNeverMain ==
    Resolving =>
        /\ last.value.backend = "async" =>
              /\ NativeWalkEmpty
              /\ last.arg.asyncContext # Null
              /\ last.value.result.packageName = last.arg.asyncContext.packageName
              /\ last.value.result.packageName # MainName
        /\ nativeAvailable /\ last.arg.nativeResult # Null =>
              last.value.backend = "native" /\ last.value.result = last.arg.nativeResult
        /\ ~nativeAvailable =>
              last.value.backend = "fallback" /\ last.value.result = last.arg.jsResult
        /\ NativeWalkEmpty /\ last.arg.asyncContext = AsyncContext(MainName) =>
              last.value.backend = "fallback" /\ last.value.result = last.arg.jsResult
C29_Witness ==
    /\ Resolving
    /\ NativeWalkEmpty
    /\ last.arg.asyncContext = AsyncContext(MainName)
    /\ last.value.backend = "fallback"
    /\ last.value.result = Caller("q", FALSE)

(***************************************************************************)
(* C31.  tamperingDetected and the behaviour of the fallback resolver.     *)
(***************************************************************************)
\* What a call of the fallback resolver shows to its caller.
Behaviour(parsed) == [returned |-> parsed.returned, threw |-> parsed.threw]
\* The module state with which the call in last started, had the module
\* been loaded with hook in Error.prepareStackTrace.
LoadedWith(hook) ==
    loadStackParser([P EXCEPT !.prepareStackTrace = hook, !.hookWritable = TRUE,
                              !.packageCache = <<>>])
BehaviourWhenLoadedWith(hook) ==
    Behaviour(getCallingPackageJS(LoadedWith(hook).state, last.arg.frames,
                                  last.arg.skipFrames))

\* C31: for a given call stack the fallback resolver behaves the same (the
\* caller it returns, or whether it raises) whether or not tampering was
\* detected at initialization.
C31_AsStated ==
    FallbackCalled =>
        \A detected, undetected \in {"undefined", "user"} :
            LoadedWith(detected).tamperingDetected
                /\ ~LoadedWith(undetected).tamperingDetected
            => BehaviourWhenLoadedWith(detected) = BehaviourWhenLoadedWith(undetected)
\* What holds: the call raises exactly when tampering was not detected, and
\* wasTamperingDetected reports the flag.
C31_RaisesUnlessDetected ==
    /\ FallbackCalled => (last.error = TypeError <=> ~tamperingDetected)
    /\ last.op = "wasTamperingDetected" => last.value = Bool(tamperingDetected)

(***************************************************************************)
(* C32.  The file-path-to-package cache.                                   *)
(***************************************************************************)
\* Every entry of the cache before the step is an entry after it.
EntriesKept ==
    \A filePath \in DOMAIN packageCache :
        filePath \in DOMAIN packageCache' /\ packageCache'[filePath] = packageCache[filePath]
Cleared == last'.op = "clearCache" /\ packageCache' = <<>>

Launched == last.op = "dotnope-run"
Separators(args) == {i \in 1..Len(args) : args[i] = "--"}
FirstSeparator(args) == CHOOSE i \in Separators(args) : \A j \in Separators(args) : i <= j
\* The command line has a separator, and the first one is not where the
\* file of a --log option stands.
Separated(args) ==
    /\ Separators(args) # {}
    /\ FirstSeparator(args) > 1 => args[FirstSeparator(args) - 1] # "--log"
BeforeSeparator(args) == SubSeq(args, 1, FirstSeparator(args) - 1)
AfterSeparator(args) == SubSeq(args, FirstSeparator(args) + 1, Len(args))
\* The words handed to the child, the script or command first.
ChildWords(launch) ==
    IF launch.command = ExecPath THEN launch.commandArgs
    ELSE <<launch.command>> \o launch.commandArgs
\* The flags are taken from before the separator only, and a spawned child
\* gets what follows the separator verbatim.
FlagsBeforeSeparator ==
    /\ last.value.verbose => HasOption(BeforeSeparator(last.arg.args), {"--verbose", "-v"})
    /\ last.value.logFile # <<>> => HasOption(BeforeSeparator(last.arg.args), {"--log"})
    /\ last.value.does = "spawn" =>
          EndsWith(ChildWords(last.value), AfterSeparator(last.arg.args))
\* The help, the check and the status are those asked before the separator.
CommandsBeforeSeparator ==
    /\ last.value.does = "help" => HasOption(BeforeSeparator(last.arg.args), {"--help", "-h"})
    /\ last.value.does = "check" => HasOption(BeforeSeparator(last.arg.args), {"--check"})
    /\ last.value.does = "status" => HasOption(BeforeSeparator(last.arg.args), {"--status"})

\* C33: everything after -- is the command and its arguments and is passed
\* to the child verbatim; --help, -h, --check, --status, --verbose, -v and
\* --log after -- are not interpreted by the launcher.
C33_AsStated ==
    Launched /\ Separated(last.arg.args) => FlagsBeforeSeparator /\ CommandsBeforeSeparator
\* What holds: --verbose, -v and --log after -- are not interpreted, and a
\* spawned child gets what follows -- verbatim.
C33_FlagsNotInterpreted ==
    Launched /\ Separated(last.arg.args) => FlagsBeforeSeparator

(***************************************************************************)
(* C34.  The files skipped as the mediator's own.                          *)
(***************************************************************************)
InternalAsked == last.op = "isInternalFile"
UnderModules(filePath) == ModulesSegments(filePath) # {}
OwnPackage == <<"dotnope">>
\* The packages whose directories enclose the file, outermost to innermost.
EnclosingPackages(filePath) ==
    {Segments(filePath)[i + 1] : i \in ModulesSegments(filePath)}

\* C34: for every file path under a node_modules directory, isInternalFile
\* implies that the innermost enclosing package (extractPackageName) is the
\* mediator's own package.
C34_AsStated ==
    InternalAsked /\ UnderModules(last.arg.filePath) /\ last.value.bool =>
        NameOfPath(last.arg.filePath) = OwnPackage
\* What holds: some enclosing package of a skipped file is the mediator's.
C34_WithinOwnDirectory ==
    InternalAsked /\ UnderModules(last.arg.filePath) /\ last.value.bool =>
        OwnPackage \in EnclosingPackages(last.arg.filePath)

(***************************************************************************)
(* C35.  The one load attempt of the native helper.                        *)
(***************************************************************************)
\* A load attempt has been made: the helper is loaded or an error is kept.
Attempted == native # Null \/ initializationError # Null
\* The step is a call of isNativeAvailable or of loadNativeAddon.
LoadCall == last = Idle /\ last'.op \in {"isNativeAvailable", "loadNativeAddon"}

\* C35: the load attempt is made at most once: after the first call of
\* isNativeAvailable or loadNativeAddon has returned, every later call
\* returns the same boolean and verifies, loads and initializes nothing; and
\* nativeAvailable implies that the helper is present and that no integrity
\* error is recorded.
C35_LoadedAtMostOnce ==
    [][/\ LoadCall => Attempted'
       /\ LoadCall /\ Attempted =>
              UNCHANGED bridgeVars /\ last'.value = Bool(nativeAvailable)
       /\ nativeAvailable' => native' # Null /\ integrityError' = Null]_vars
\* A call that found files that load, after an attempt that failed for
\* another reason than integrity, and answered false.
C35_Witness ==
    /\ last.op = "isNativeAvailable"
    /\ WouldLoad(last.arg)
    /\ last.value = Bool(FALSE)
    /\ initializationError # Null /\ integrityError = Null

(***************************************************************************)
(* C36.  Enforcement enabled and a wrapper installed.                      *)
(***************************************************************************)
\* C36: in every state of the mediator module, after any sequence of
\* createEnvProxy, enable, disable, restore and setFilterKeysFn calls,
\* isStrictModeEnabled() implies getProxyStatus().hasProxy.
C36_AsStated == isStrictModeEnabled => getProxyStatus.hasProxy
\* What holds: enable alone sets the flag, and every other function leaves
\* it set only with a wrapper installed.
C36_EnabledWithoutProxyByEnable ==
    [][isEnabled' /\ proxyEnv' = Null => last'.op = "enable" \/ (isEnabled /\ proxyEnv = Null)]_vars

(***************************************************************************)
(* C37.  The key filter of an enabled wrapper.                             *)
(***************************************************************************)
\* A wrapper is installed, enforcement is enabled, protectEnumeration is true.
EnumerationProtected == proxyEnv # Null /\ isEnabled /\ proxyOptions.protectEnumeration
\* The caller is a package whose sets hold neither * nor every key.
PartlyGranted ==
    /\ ByPackage
    /\ Wildcard \notin SetOf("allowed") \cup SetOf("canWrite") \cup SetOf("canDelete")
    /\ ~(Keys(env) \subseteq SetOf("allowed") \cup SetOf("canWrite") \cup SetOf("canDelete"))

\* C37: in every state with a wrapper installed, enforcement enabled and
\* protectEnumeration true a key filter is installed, so that own-key
\* enumeration never returns the unfiltered key set to a package caller
\* whose sets do not contain *.
C37_AsStated ==
    /\ EnumerationProtected => filterKeysFn # Null
    /\ EnumerationProtected /\ Enforcing /\ last.op = "ownKeys" /\ PartlyGranted =>
           last.keys # Keys(env)
\* What holds: with a key filter installed the enumeration is filtered.
C37_FilteredWhenInstalled ==
    EnumerationProtected /\ Enforcing /\ filterKeysFn = checkAccessFn
        /\ last.op = "ownKeys" /\ PartlyGranted
    => last.keys # Keys(env)

(***************************************************************************)
(* Wrappers that outlive their installation.  createEnvProxy makes a new    *)
(* Proxy at every installation; a caller that kept a reference to the Proxy *)
(* of an earlier installation can still reach the environment through it    *)
(* after restore() has put the original object back in process.env.  The    *)
(* handler of every Proxy is a set of closures over the variables of the    *)
(* module (isEnabled, checkAccessFn, filterKeysFn, proxyOptions), and its   *)
(* target is the original environment object.                               *)
(***************************************************************************)
TrapNames == {"get", "set", "has", "deleteProperty", "ownKeys",
              "getOwnPropertyDescriptor", "defineProperty"}

\* The properties a trap is called with in the model.
PropsOf(trap) ==
    CASE trap \in {"get", "has", "getOwnPropertyDescriptor"} -> Props
      [] trap \in {"set", "deleteProperty", "defineProperty"} -> EnvVars
      [] trap = "ownKeys" -> {""}

\* The handler object given to new Proxy: the trap of each name.
Handler(trap, caller, prop, value, u) ==
    CASE trap = "get" -> TrapGet(caller, prop, u)
      [] trap = "set" -> TrapSet(caller, prop, value, u)
      [] trap = "has" -> TrapHas(caller, prop, u)
      [] trap = "deleteProperty" -> TrapDeleteProperty(caller, prop, u)
      [] trap = "ownKeys" -> TrapOwnKeys(caller, u)
      [] trap = "getOwnPropertyDescriptor" -> TrapGetOwnPropertyDescriptor(caller, prop, u)
      [] trap = "defineProperty" -> TrapDefineProperty(caller, prop, value, u)

\* The object the target of every Proxy is, accessed without a trap.
Forward(trap, prop, value) ==
    CASE trap \in {"get", "getOwnPropertyDescriptor"} -> Returns(ReadProp(env, prop), env, FALSE)
      [] trap = "has" -> Returns(HasProp(env, prop), env, FALSE)
      [] trap \in {"set", "defineProperty"} ->
            Returns("true", [env EXCEPT ![prop] = value], FALSE)
      [] trap = "deleteProperty" -> Returns("true", [env EXCEPT ![prop] = Undefined], FALSE)
      [] trap = "ownKeys" ->
            Outcome(NoError, Undefined, Keys(env), env, FALSE)

\* A wrapper whose handler reads the state of its own installation, which
\* is torn down: it forwards.
RetainedTrapOfOwnInstallation(n, trap, caller, prop, value, u) == Forward(trap, prop, value)

\* The trap of the Proxy of installation n: the handler does not depend on
\* the installation that made it.
RetainedTrap(n, trap, caller, prop, value, u) == Handler(trap, caller, prop, value, u)

\* The wrappers published so far that process.env does not name any more.
RetainedWrappers == {ProxyRef(n) : n \in 1..proxyInstalledAt} \ {processEnv}

\* An access through the retained wrapper of installation n.
ThroughRetained(n, trap, caller, prop, value, u) ==
    /\ last = Idle
    /\ ProxyRef(n) \in RetainedWrappers
    /\ prop \in PropsOf(trap)
    /\ Finish(trap, caller, prop, [wrapper |-> ProxyRef(n), value |-> value],
              RetainedTrap(n, trap, caller, prop, value, u))

RetainedNext ==
    \/ \E raw \in (IF proxyInstalledAt = 0 THEN RawConfigs ELSE ReinstallConfigs) :
            EnableStrictEnv(raw)
    \/ \E token \in Tokens : HandleDisable(token)
    \/ DisableStrictEnv
    \/ \E n \in 1..MaxInstalls, trap \in TrapNames, c \in Callers, prop \in Props \cup {""},
          v \in Values : \E u \in Open(c) : ThroughRetained(n, trap, c, prop, v, u)
    \/ Return

RetainedSpec == Init /\ [][RetainedNext]_vars

\* C38: while an installation is published and enforcement is enabled, an
\* access through a wrapper kept from an earlier, torn-down installation ends
\* as the same access through the published wrapper ends: the same check
\* function and the same protection options decide it.
ViaRetained(call) == call.op \in TrapNames /\ call.arg \in [wrapper : RetainedWrappers, value : Values]

C38_RetainedWrapperChecked ==
    [][(last = Idle /\ ViaRetained(last') /\ IsProxy(processEnv) /\ isEnabled)
        => \E u \in Open(last'.caller) :
              LET out == Handler(last'.op, last'.caller, last'.prop, last'.arg.value, u)
              IN  /\ last' = Call(last'.op, last'.caller, last'.prop, last'.arg, out)
                  /\ env' = out.target]_vars

\* A package is refused, by the check function of the second installation,
\* an access through the wrapper of the first.
C38_Witness ==
    /\ ViaRetained(last)
    /\ last.arg.wrapper = ProxyRef(1)
    /\ processEnv = ProxyRef(2)
    /\ isEnabled
    /\ last.checked
    /\ last.error # NoError

(***************************************************************************)
(* Totality of the decision (section 4.3).  A call for which the decision   *)
(* ran is looked at with the module state it ran in: the verdicts the       *)
(* ordered rules give for its identity, operation, variable, policy and     *)
(* isEval flag.  Where no rule applies the model leaves the verdict open,   *)
(* and the set holds two verdicts.                                          *)
(***************************************************************************)
DecidedOps == EvalOps \cup {"ownKeys"}
Operation(op) == IF op = "ownKeys" THEN "enumerate" ELSE OperationOf(op)
DecideRan == Enforcing /\ last.op \in DecidedOps /\ last.checked
Reasons == {"UNKNOWN_CALLER", "EVAL_CONTEXT", "UNAUTHORIZED_READ", "UNAUTHORIZED_WRITE",
            "UNAUTHORIZED_DELETE"}
VerdictsOfCall ==
    {decide(IdentityOf(last.caller), Operation(last.op), last.prop, LoadConfig(checkAccessFn),
            EvalFlag(last.caller), u) : u \in BOOLEAN}
\* Identity main with treatMainAsUnrestricted false, on a protected operation
\* and not denied for eval: rules 1 to 4 do not apply, and rule 5 is about
\* packages.
NoRuleApplies ==
    /\ ByMain
    /\ ~Opt("treatMainAsUnrestricted")
    /\ ~Unprotected(Operation(last.op), LoadConfig(checkAccessFn).options)
    /\ ~EvalDenied

====
